---- MODULE Spec2Model ----
(***************************************************************************)
(* Demco FCR draft maker: the CSV ingestion and row-to-record pipeline of  *)
(* the React pages (POProcessor, FCRGenerator and the FCRDraftGenerator    *)
(* variants).                                                              *)
(*                                                                         *)
(* JavaScript strings are sequences of one-character strings, so that      *)
(* trim, join, parseFloat, parseInt and padStart are computed character by *)
(* character.  An optional value (undefined / null, or a value) is the     *)
(* empty sequence or a one-element sequence holding the value.             *)
(***************************************************************************)
EXTENDS Integers, Sequences, FiniteSets, TLC

VARIABLES
    page,             \* the page component that is mounted
    poData,           \* POProcessor: useState(null)
    recycledPOsData,  \* POProcessor: useState(null)
    inputData,        \* FCR pages: useState(null)
    processedData,    \* useState(null) of the mounted page
    isProcessing,     \* useState(false)
    logs,             \* useState([])
    errors,           \* POProcessor: useState([])
    pending,          \* Papa.parse calls whose complete callback has not run yet
    run,              \* locals of the latest processData invocation
    arg,              \* the argument handed to the field normalizers
    out,              \* what each normalizer returned for arg
    browser,          \* the time zone and the engine of the browser, once they showed
    copiedBoxes,      \* FCR pages: useState({}), the box ids that are keys of it
    copyHistory,      \* FCR pages: useState([])
    lastCopiedBoxId,  \* FCR pages: useState(null)
    storage,          \* localStorage: fcr_copied_boxes and fcr_copy_history
    saveTimer,        \* FCRGenerator: the timeout of the auto-save effect is pending
    db,               \* server: the fcrprojects collection, in insertion order
    response,         \* server: the request handled last and the answer to it
    detail,           \* ProjectDetailPage: the project shown and its copiedBoxes
    calls             \* ProjectDetailPage: handlers suspended at an await

copyVars == <<copiedBoxes, copyHistory, lastCopiedBoxId, storage, saveTimer>>

serverVars == <<db, response, detail, calls>>

vars == <<page, poData, recycledPOsData, inputData, processedData, isProcessing,
          logs, errors, pending, run, arg, out, browser, copyVars, serverVars>>

(***************************************************************************)
(* Optional values.                                                        *)
(***************************************************************************)
Null == <<>>
Undefined == <<>>
Some(x) == <<x>>
IsSome(o) == Len(o) = 1
Val(o) == o[1]

(***************************************************************************)
(* Strings.                                                                *)
(***************************************************************************)
WhiteSpace == {" ", "\t"}

SetMin(S) == CHOOSE x \in S : \A y \in S : x <= y
SetMax(S) == CHOOSE x \in S : \A y \in S : x >= y

\* String.prototype.trim
trim(s) ==
    LET idx == {i \in 1..Len(s) : s[i] \notin WhiteSpace}
    IN IF idx = {} THEN <<>> ELSE SubSeq(s, SetMin(idx), SetMax(idx))

\* Array.prototype.join over an array of strings
RECURSIVE join(_, _)
join(list, sep) ==
    IF Len(list) = 0 THEN <<>>
    ELSE IF Len(list) = 1 THEN list[1]
    ELSE list[1] \o sep \o join(Tail(list), sep)

Range(s) == {s[i] : i \in 1..Len(s)}

\* Array.prototype.map
map(list, F(_)) == [i \in 1..Len(list) |-> F(list[i])]

\* x?.trim()
optTrim(o) == IF IsSome(o) THEN Some(trim(Val(o))) ELSE Undefined

\* truthiness of an optional string: undefined and '' are falsy
truthy(o) == IsSome(o) /\ Val(o) # <<>>

Digits == {"0", "1", "2", "3", "4", "5", "6", "7", "8", "9"}

DigitVal(c) ==
    CASE c = "0" -> 0 [] c = "1" -> 1 [] c = "2" -> 2 [] c = "3" -> 3
      [] c = "4" -> 4 [] c = "5" -> 5 [] c = "6" -> 6 [] c = "7" -> 7
      [] c = "8" -> 8 [] c = "9" -> 9

DigitChar(d) == <<"0", "1", "2", "3", "4", "5", "6", "7", "8", "9">>[d + 1]

(***************************************************************************)
(* Column names and fixed strings of the PO processor.                     *)
(***************************************************************************)
InvoiceCol == <<"I", "n", "v", "o", "i", "c", "e">>
POCol == <<"P", "O">>
GoodsCol == <<"G", "o", "o", "d", "s">>
Comma == <<",">>
CommaSpace == <<",", " ">>

PO_HEADERS == <<InvoiceCol, POCol, GoodsCol>>
RECYCLED_HEADERS == <<POCol>>

TYPE_MIXED == "100% PORCELAIN TABLEWARE AND 80% PORCELAIN, 20% RECYCLED PRE-CONSUMER PORCELAIN"
TYPE_RECYCLED == "80% PORCELAIN, 20% RECYCLED PRE-CONSUMER PORCELAIN"
TYPE_NORMAL == "100% PORCELAIN TABLEWARE"

(***************************************************************************)
(* A plain JavaScript object used as a map: a sequence of <<key, value>>   *)
(* pairs in the order the own properties were created.  A key that is not  *)
(* an own property is looked up on Object.prototype.                       *)
(***************************************************************************)
ObjectPrototypeKeys == {
    <<"c", "o", "n", "s", "t", "r", "u", "c", "t", "o", "r">>,
    <<"t", "o", "S", "t", "r", "i", "n", "g">>,
    <<"v", "a", "l", "u", "e", "O", "f">>,
    <<"_", "_", "p", "r", "o", "t", "o", "_", "_">>,
    <<"h", "a", "s", "O", "w", "n", "P", "r", "o", "p", "e", "r", "t", "y">>,
    <<"i", "s", "P", "r", "o", "t", "o", "t", "y", "p", "e", "O", "f">>,
    <<"p", "r", "o", "p", "e", "r", "t", "y", "I", "s", "E", "n", "u", "m", "e", "r", "a", "b", "l", "e">>,
    <<"t", "o", "L", "o", "c", "a", "l", "e", "S", "t", "r", "i", "n", "g">> }

EmptyObject == <<>>

OwnIndex(obj, k) == {i \in 1..Len(obj) : obj[i][1] = k}
HasOwn(obj, k) == OwnIndex(obj, k) # {}
GetOwn(obj, k) == obj[CHOOSE i \in OwnIndex(obj, k) : TRUE][2]

\* obj[k]: "own" when k is an own property, "inherited" when Object.prototype
\* answers (a function or an object: truthy, and no array), else "undefined"
Lookup(obj, k) ==
    IF HasOwn(obj, k) THEN "own"
    ELSE IF k \in ObjectPrototypeKeys THEN "inherited"
    ELSE "undefined"

\* obj[k] = v
Put(obj, k, v) ==
    IF HasOwn(obj, k)
    THEN [i \in 1..Len(obj) |-> IF obj[i][1] = k THEN <<k, v>> ELSE obj[i]]
    ELSE Append(obj, <<k, v>>)

\* a canonical array index: the decimal form of an integer in 0 .. 2^32 - 2
MaxIndexDigits == <<"4", "2", "9", "4", "9", "6", "7", "2", "9", "4">>

RECURSIVE LexLeq(_, _)
LexLeq(a, b) ==
    IF Len(a) = 0 THEN TRUE
    ELSE IF DigitVal(a[1]) # DigitVal(b[1]) THEN DigitVal(a[1]) < DigitVal(b[1])
    ELSE LexLeq(Tail(a), Tail(b))

\* a <= b for two canonical decimal strings
NumLeq(a, b) == Len(a) < Len(b) \/ (Len(a) = Len(b) /\ LexLeq(a, b))

IsArrayIndex(k) ==
    /\ Len(k) > 0
    /\ \A i \in 1..Len(k) : k[i] \in Digits
    /\ (Len(k) > 1 => k[1] # "0")
    /\ NumLeq(k, MaxIndexDigits)

\* the entries, stably sorted by a total preorder on the keys
RECURSIVE InsertSorted(_, _)
InsertSorted(sorted, e) ==
    IF Len(sorted) = 0 THEN <<e>>
    ELSE IF NumLeq(sorted[1][1], e[1]) THEN <<sorted[1]>> \o InsertSorted(Tail(sorted), e)
    ELSE <<e>> \o sorted

RECURSIVE SortByIndex(_)
SortByIndex(es) ==
    IF Len(es) = 0 THEN <<>>
    ELSE InsertSorted(SortByIndex(SubSeq(es, 1, Len(es) - 1)), es[Len(es)])

IsIndexEntry(e) == IsArrayIndex(e[1])
IsNameEntry(e) == ~IsArrayIndex(e[1])

\* Object.entries / Object.keys order (OrdinaryOwnPropertyKeys): the array
\* index keys in ascending numeric order, then the other keys in creation order
Entries(obj) ==
    SortByIndex(SelectSeq(obj, IsIndexEntry)) \o SelectSeq(obj, IsNameEntry)

Keys(obj) == map(Entries(obj), LAMBDA e : e[1])

(***************************************************************************)
(* Log entries.  A message is a template literal: tpl is its text and args *)
(* are the strings interpolated into it, in the order of its ${...}.       *)
(***************************************************************************)
Msg(tpl, args) == [tpl |-> tpl, args |-> args, inner |-> ""]

\* a template literal that interpolates name and the message of a caught
\* error: the error's own interpolated strings follow name
Wrap(tpl, name, error) == [tpl |-> tpl, args |-> name \o error.args, inner |-> error.tpl]

\* the decimal form of a natural number, as interpolation writes it
RECURSIVE NatToStr(_)
NatToStr(n) ==
    IF n < 10 THEN <<DigitChar(n)>>
    ELSE NatToStr(n \div 10) \o <<DigitChar(n % 10)>>

\* { message, type, timestamp }: the timestamp is the reading of the clock
\* when addLog runs, new Date().toLocaleTimeString()
LogEntry(message, type) ==
    [message |-> message, type |-> type, timestamp |-> "toLocaleTimeString"]

\* an addLog that puts the entry first, a mutant
addLogFirst(ls, message, type) == <<LogEntry(message, type)>> \o ls

\* addLog(message, type = 'info')
addLog(ls, message, type) == Append(ls, LogEntry(message, type))

(***************************************************************************)
(* Papa.parse with header: true and skipEmptyLines: true.  A file is its   *)
(* header line (fields) and its non-empty data lines, each a sequence of   *)
(* cells; quoteErrors holds the messages of the errors of type 'Quotes' or *)
(* 'Delimiter' the parser reports.  A row maps each header field that has  *)
(* a cell on the line to that cell: the keys are the header fields as      *)
(* written.                                                                *)
(***************************************************************************)
Min2(a, b) == IF a <= b THEN a ELSE b

Row(fields, line) ==
    [k \in {fields[i] : i \in 1..Min2(Len(fields), Len(line))} |->
        line[CHOOSE i \in 1..Min2(Len(fields), Len(line)) : fields[i] = k]]

PapaParse(file) ==
    [data |-> [i \in 1..Len(file.lines) |-> Row(file.fields, file.lines[i])],
     fields |-> file.fields,
     delimiter |-> file.delimiter,
     criticalErrors |-> file.quoteErrors]

\* row[key]
Get(row, key) == IF key \in DOMAIN row THEN Some(row[key]) ELSE Undefined

(***************************************************************************)
(* POProcessor.processPOData: the scan of the rows.  thrown is set when    *)
(* push is called on a value that is no array (TypeError), which ends the  *)
(* forEach.                                                                *)
(***************************************************************************)
\* Array.prototype.push on the array stored under key k
Push(obj, k, v) == Put(obj, k, Append(GetOwn(obj, k), v))

processPORow(acc, row) ==
    LET invoice == optTrim(Get(row, InvoiceCol))
        po == optTrim(Get(row, POCol))
        goods == optTrim(Get(row, GoodsCol))
    IN
    IF ~truthy(invoice) THEN acc
    ELSE
        LET inv == Val(invoice)
            fresh == Lookup(acc.invoicePOMap, inv) = "undefined"
            poMap0 == IF fresh THEN Put(acc.invoicePOMap, inv, <<>>)
                      ELSE acc.invoicePOMap
            goodsMap0 == IF fresh THEN Put(acc.invoiceGoodsMap, inv, <<>>)
                         ELSE acc.invoiceGoodsMap
            poThrows == truthy(po) /\ ~HasOwn(poMap0, inv)
            goodsThrows == truthy(goods) /\ ~HasOwn(goodsMap0, inv)
            poMap1 == IF truthy(po) /\ ~poThrows THEN Push(poMap0, inv, Val(po))
                      ELSE poMap0
            goodsMap1 == IF truthy(goods) /\ ~poThrows /\ ~goodsThrows
                         THEN Push(goodsMap0, inv, Val(goods))
                         ELSE goodsMap0
        IN [invoicePOMap |-> poMap1,
            invoiceGoodsMap |-> goodsMap1,
            thrown |-> poThrows \/ goodsThrows]

RECURSIVE scanRows(_, _)
scanRows(rows, acc) ==
    IF Len(rows) = 0 \/ acc.thrown THEN acc
    ELSE scanRows(Tail(rows), processPORow(acc, rows[1]))

processPOData(rows) ==
    scanRows(rows, [invoicePOMap |-> EmptyObject,
                    invoiceGoodsMap |-> EmptyObject,
                    thrown |-> FALSE])

(***************************************************************************)
(* POProcessor.determineInvoiceType                                        *)
(***************************************************************************)
hasRecycled(posList, recycledPOsSet) ==
    \E i \in 1..Len(posList) : posList[i] \in recycledPOsSet

hasNormal(posList, recycledPOsSet) ==
    \E i \in 1..Len(posList) : posList[i] \notin recycledPOsSet /\ posList[i] # <<>>

\* the classification with the first two branches swapped, a mutant
invoiceTypeRecycledFirst(posList, recycledPOsSet) ==
    IF hasRecycled(posList, recycledPOsSet) THEN TYPE_RECYCLED
    ELSE IF hasRecycled(posList, recycledPOsSet) /\ hasNormal(posList, recycledPOsSet)
    THEN TYPE_MIXED
    ELSE TYPE_NORMAL

\* the classification that takes every PO outside the set for a normal one and
\* an invoice without POs for a recycled one, a mutant
invoiceTypeAllRecycled(posList, recycledPOsSet) ==
    IF hasRecycled(posList, recycledPOsSet) /\ hasNormal(posList, recycledPOsSet)
    THEN TYPE_MIXED
    ELSE IF \A i \in 1..Len(posList) : posList[i] \in recycledPOsSet
    THEN TYPE_RECYCLED
    ELSE TYPE_NORMAL

invoiceType(posList, recycledPOsSet) ==
    IF hasRecycled(posList, recycledPOsSet) /\ hasNormal(posList, recycledPOsSet)
    THEN TYPE_MIXED
    ELSE IF hasRecycled(posList, recycledPOsSet) THEN TYPE_RECYCLED
    ELSE TYPE_NORMAL

\* invoiceTypeMap: one property per entry of invoicePOMap, created in the
\* order of Object.entries(invoicePOMap)
RECURSIVE assignTypes(_, _, _)
assignTypes(entries, recycledPOsSet, typeMap) ==
    IF Len(entries) = 0 THEN typeMap
    ELSE assignTypes(Tail(entries), recycledPOsSet,
                     Put(typeMap, entries[1][1], invoiceType(entries[1][2], recycledPOsSet)))

determineInvoiceType(invoicePOMap, recycledPOsSet) ==
    assignTypes(Entries(invoicePOMap), recycledPOsSet, EmptyObject)

typeCounts(invoiceTypeMap) ==
    [mixed |-> Cardinality({i \in 1..Len(invoiceTypeMap) : invoiceTypeMap[i][2] = TYPE_MIXED}),
     recycled |-> Cardinality({i \in 1..Len(invoiceTypeMap) : invoiceTypeMap[i][2] = TYPE_RECYCLED}),
     normal |-> Cardinality({i \in 1..Len(invoiceTypeMap) : invoiceTypeMap[i][2] = TYPE_NORMAL})]

(***************************************************************************)
(* POProcessor.processData                                                 *)
(***************************************************************************)
IsTruthyString(s) == s # <<>>

\* new Set(recycledPOsData.map(row => row.PO?.trim()).filter(po => po))
recycledSetOf(rows) ==
    {Val(optTrim(Get(rows[i], POCol))) : i \in {j \in 1..Len(rows) : truthy(optTrim(Get(rows[j], POCol)))}}

\* the record of one entry of invoicePOMap
outputRecord(entry, invoiceGoodsMap, invoiceTypeMap) ==
    LET invoice == entry[1]
        pos == entry[2]
    IN [InvoiceNumber |-> invoice,
        PONumbers |-> join(SelectSeq(pos, IsTruthyString), Comma),
        Description |-> IF HasOwn(invoiceTypeMap, invoice)
                        THEN GetOwn(invoiceTypeMap, invoice) ELSE TYPE_NORMAL,
        Goods |-> join(SelectSeq(IF HasOwn(invoiceGoodsMap, invoice)
                                 THEN GetOwn(invoiceGoodsMap, invoice) ELSE <<>>,
                                 IsTruthyString), Comma)]

outputData(invoicePOMap, invoiceGoodsMap, invoiceTypeMap) ==
    [i \in 1..Len(Entries(invoicePOMap)) |->
        outputRecord(Entries(invoicePOMap)[i], invoiceGoodsMap, invoiceTypeMap)]

\* the message of the TypeError a push on a value without push raises
PushIsNotAFunction ==
    <<"i", "n", "v", "o", "i", "c", "e", "P", "O", "M", "a", "p", "[", "i", "n", "v",
      "o", "i", "c", "e", "]", ".", "p", "u", "s", "h", " ", "i", "s", " ", "n", "o",
      "t", " ", "a", " ", "f", "u", "n", "c", "t", "i", "o", "n">>

NoRun == [called |-> FALSE, ok |-> FALSE, rows |-> <<>>, recycledPOsSet |-> {},
          invoicePOMap |-> EmptyObject, invoiceGoodsMap |-> EmptyObject,
          invoiceTypeMap |-> EmptyObject]

\* the locals of one invocation of processData
processRun(rows, recycledRows) ==
    LET recycledPOsSet == recycledSetOf(recycledRows)
        scanned == processPOData(rows)
        invoiceTypeMap == IF scanned.thrown THEN EmptyObject
                          ELSE determineInvoiceType(scanned.invoicePOMap, recycledPOsSet)
    IN [called |-> TRUE, ok |-> ~scanned.thrown, rows |-> rows,
        recycledPOsSet |-> recycledPOsSet,
        invoicePOMap |-> scanned.invoicePOMap,
        invoiceGoodsMap |-> scanned.invoiceGoodsMap,
        invoiceTypeMap |-> invoiceTypeMap]

\* the log lines of one invocation, after clearLogs()
processLogs(r) ==
    LET counts == typeCounts(r.invoiceTypeMap)
        l1 == addLog(<<>>, Msg("Starting PO data processing", <<>>), "info")
        l2 == addLog(l1, Msg("Found ${recycledPOsSet.size} recycled PO numbers",
                             <<NatToStr(Cardinality(r.recycledPOsSet))>>), "info")
        l3 == addLog(l2, Msg("Processing PO data", <<>>), "info")
        l4 == addLog(l3, Msg("Processed data for ${Object.keys(invoicePOMap).length} invoices",
                             <<NatToStr(Len(Keys(r.invoicePOMap)))>>), "info")
        l5 == addLog(l4, Msg("Determining invoice types", <<>>), "info")
        l6 == addLog(l5, Msg("Invoice type counts: Mixed: ${typeCounts.mixed}, Recycled: ${typeCounts.recycled}, Normal: ${typeCounts.normal}",
                             <<NatToStr(counts.mixed), NatToStr(counts.recycled),
                               NatToStr(counts.normal)>>), "info")
        l7 == addLog(l6, Msg("Successfully processed ${outputData.length} invoices",
                             <<NatToStr(Len(Entries(r.invoicePOMap)))>>), "info")
        l8 == addLog(l7, Msg("Processing completed successfully", <<>>), "success")
        failed == Msg("Processing failed: ${error.message}", <<PushIsNotAFunction>>)
    IN IF r.ok THEN [logs |-> l8, errors |-> <<>>]
       ELSE [logs |-> addLog(l3, failed, "error"), errors |-> <<failed>>]

processData ==
    /\ page = "POProcessor"
    /\ poData # Null /\ recycledPOsData # Null /\ ~isProcessing
    /\ LET r == processRun(Val(poData), Val(recycledPOsData))
       IN /\ run' = r
          /\ logs' = processLogs(r).logs
          /\ errors' = processLogs(r).errors
          /\ processedData' = IF r.ok
                              THEN Some(outputData(r.invoicePOMap, r.invoiceGoodsMap,
                                                   r.invoiceTypeMap))
                              ELSE processedData
    /\ isProcessing' = FALSE
    /\ UNCHANGED <<serverVars, browser, copyVars, page, poData, recycledPOsData, inputData, pending, arg, out>>

(***************************************************************************)
(* POProcessor.validateHeaders and the complete callback of parseCSVFile.  *)
(***************************************************************************)
NoError == Msg("", <<>>)

SameMembers(a, b) == {a[i] : i \in 1..Len(a)} = {b[i] : i \in 1..Len(b)}

\* a validation that compares the columns as sets, a mutant
validateHeadersUnordered(headers, expectedHeaders) ==
    SameMembers(map(headers, trim), map(expectedHeaders, trim))

\* TRUE when validateHeaders returns, FALSE when it throws.  JSON.stringify is
\* one-to-one on arrays of strings, so the comparison is that of the arrays.
validateHeaders(headers, expectedHeaders) ==
    map(headers, trim) = map(expectedHeaders, trim)

\* a message that tells the expected columns only, a mutant
headerMismatchExpectedOnly(headers, expectedHeaders, fileName) ==
    Msg("Header mismatch in ${fileName}. Expected: [${normalizedExpected.join(', ')}]",
        <<fileName, join(map(expectedHeaders, trim), CommaSpace)>>)

\* the message of the Error validateHeaders throws
headerMismatch(headers, expectedHeaders, fileName) ==
    Msg("Header mismatch in ${fileName}. Expected: [${normalizedExpected.join(', ')}], Got: [${normalizedHeaders.join(', ')}]",
        <<fileName, join(map(expectedHeaders, trim), CommaSpace),
          join(map(headers, trim), CommaSpace)>>)

\* a complete callback that resolves with whatever rows there are, a mutant
parseCSVFileAnyRows(file, expectedHeaders) ==
    LET results == PapaParse(file)
    IN IF Len(results.fields) = 0 \/ ~validateHeaders(results.fields, expectedHeaders)
       THEN [resolved |-> FALSE, data |-> <<>>, logs |-> <<>>,
             error |-> headerMismatch(results.fields, expectedHeaders, file.name)]
       ELSE [resolved |-> TRUE, data |-> results.data, logs |-> <<>>, error |-> NoError]

\* what the complete callback of parseCSVFile does with the results: the log
\* lines it adds, and either the rows it resolves with or the error it
\* rejects with
parseCSVFile(file, expectedHeaders) ==
    LET results == PapaParse(file)
        warned == IF Len(results.criticalErrors) > 0
                  THEN <<LogEntry(Msg("Warning: Some parsing issues in ${fileName}: ${criticalErrors.map(e => e.message).join(', ')}",
                                      <<file.name, join(results.criticalErrors, CommaSpace)>>),
                                  "warning")>>
                  ELSE <<>>
        detected == LogEntry(Msg("Detected delimiter: '${results.meta.delimiter}' in ${fileName}",
                                 <<results.delimiter, file.name>>), "info")
        read == LogEntry(Msg("Successfully read ${results.data.length} rows from ${fileName}",
                             <<NatToStr(Len(results.data)), file.name>>), "info")
    IN
    IF Len(results.data) = 0
    THEN [resolved |-> FALSE, data |-> <<>>, logs |-> warned,
          error |-> Msg("No valid data found in ${fileName}. Please check the file format.",
                        <<file.name>>)]
    ELSE IF Len(results.fields) = 0
    THEN [resolved |-> FALSE, data |-> <<>>, logs |-> warned,
          error |-> Msg("No headers found in ${fileName}. Please ensure the file has a header row.",
                        <<file.name>>)]
    ELSE IF ~validateHeaders(results.fields, expectedHeaders)
    THEN [resolved |-> FALSE, data |-> <<>>, logs |-> warned \o <<detected>>,
          error |-> headerMismatch(results.fields, expectedHeaders, file.name)]
    ELSE [resolved |-> TRUE, data |-> results.data,
          logs |-> warned \o <<detected, read>>,
          error |-> NoError]

(***************************************************************************)
(* Bounds and input pools.                                                 *)
(***************************************************************************)
MaxRows == 2
MaxRecycledRows == 2

SeqsUpTo(S, n) == UNION {[1..k -> S] : k \in 0..n}

A == <<"A">>
PaddedA == <<" ", "A", " ">>
Ten == <<"1", "0">>
Two == <<"2">>
P1 == <<"P", "1">>
P2 == <<"P", "2">>
PaddedP2 == <<" ", "P", "2", " ">>
G1 == <<"G", "1">>
G2 == <<"G", "2">>
Constructor == <<"c", "o", "n", "s", "t", "r", "u", "c", "t", "o", "r">>
Empty == <<>>

\* file names
PoCsv == <<"p", "o", ".", "c", "s", "v">>
RecycledCsv == <<"r", "e", "c", ".", "c", "s", "v">>
FcrCsv == <<"f", "c", "r", ".", "c", "s", "v">>

\* data lines of a PO file: Invoice, PO, Goods
POLinePool == {
    <<A, P1, G1>>, <<PaddedA, PaddedP2, G2>>, <<A, Empty, Empty>>,
    <<Ten, P1, G1>>, <<Two, P2, Empty>>, <<Empty, P1, G1>>,
    <<Constructor, Empty, Empty>>, <<Constructor, P1, G1>> }

\* data lines of a recycled reference file: PO
RecycledLinePool == { <<P1>>, <<PaddedP2>>, <<Empty>> }

\* header lines that pass the PO validation: as expected, and padded
AcceptedPOFields == { PO_HEADERS,
                      << <<" ">> \o InvoiceCol, POCol, GoodsCol \o <<" ">> >> }

AcceptedRecycledFields == { RECYCLED_HEADERS }

FilesOf(name, fieldsPool, linePool, maxRows) ==
    {[name |-> name, fields |-> f, lines |-> ls, delimiter |-> Comma, quoteErrors |-> <<>>] :
        f \in fieldsPool, ls \in SeqsUpTo(linePool, maxRows)}

\* the datasets a page can hold after uploads of the files of a pool
Loaded(files, expectedHeaders) ==
    {Some(parseCSVFile(f, expectedHeaders).data) :
        f \in {g \in files : parseCSVFile(g, expectedHeaders).resolved}}

(***************************************************************************)
(* The FCR pages (FCRGenerator and FCRDraftGenerator): required columns    *)
(* and the complete callback of handleFileUpload.                          *)
(***************************************************************************)
EXPSerialCol == <<"E", "X", "P", " ", "S", "e", "r", "i", "a", "l">>
InvoiceDateCol == <<"I", "n", "v", "o", "i", "c", "e", " ", "D", "a", "t", "e">>
EntryDateCol == <<"E", "n", "t", "r", "y", " ", "D", "a", "t", "e">>
DateOfContactCol == <<"D", "a", "t", "e", " ", "o", "f", " ", "C", "o", "n", "t", "a", "c", "t">>
DescriptionCol == <<"D", "e", "s", "c", "r", "i", "p", "t", "i", "o", "n">>
PONumbersCol == <<"P", "O", " ", "N", "u", "m", "b", "e", "r", "s">>
InvoiceNoCol == <<"I", "n", "v", "o", "i", "c", "e", " ", "N", "o">>
ADCodeCol == <<"A", "D", " ", "C", "o", "d", "e">>
EXPYearCol == <<"E", "X", "P", " ", "Y", "e", "a", "r">>
LcContactCol == <<"L", "c", " ", "C", "o", "n", "t", "a", "c", "t">>
CountryShortCodeCol == <<"C", "o", "u", "n", "t", "r", "y", " ", "s", "h", "o", "r", "t", " ", "c", "o", "d", "e">>
ExtraCol == <<"E", "x", "t", "r", "a">>

requiredColumns ==
    <<EXPSerialCol, InvoiceDateCol, EntryDateCol, DateOfContactCol, DescriptionCol,
      PONumbersCol, InvoiceNoCol, ADCodeCol, EXPYearCol, LcContactCol,
      CountryShortCodeCol, GoodsCol>>

\* Array.prototype.filter with the test "is no member of headers"
RECURSIVE notIncluded(_, _)
notIncluded(cols, headers) ==
    IF Len(cols) = 0 THEN <<>>
    ELSE (IF cols[1] \in {headers[i] : i \in 1..Len(headers)} THEN <<>> ELSE <<cols[1]>>)
         \o notIncluded(Tail(cols), headers)

\* a filter that stops at the first missing column, a mutant
missingColumnsFirstOnly(headers) ==
    IF Len(notIncluded(requiredColumns, headers)) = 0 THEN <<>>
    ELSE <<notIncluded(requiredColumns, headers)[1]>>

\* requiredColumns.filter(col => !headers.includes(col))
missingColumns(headers) == notIncluded(requiredColumns, headers)

\* a complete callback that loads the rows before it checks the columns, a
\* mutant
fcrCompleteLoadFirst(file) ==
    LET results == PapaParse(file)
        missing == missingColumns(results.fields)
    IN
    IF Len(results.data) = 0
    THEN [loaded |-> FALSE, data |-> <<>>,
          logs |-> <<LogEntry(Wrap("Error: ${error.message}", <<>>,
                                   Msg("No valid data found in file", <<>>)), "error")>>]
    ELSE [loaded |-> TRUE, data |-> results.data,
          logs |-> IF Len(missing) > 0
                   THEN <<LogEntry(Wrap("Error: ${error.message}", <<>>,
                                        Msg("Missing required columns: ${missingColumns.join(', ')}",
                                            <<join(missing, CommaSpace)>>)), "error")>>
                   ELSE <<>>]

\* what the complete callback of the FCR handleFileUpload does with the
\* results: the rows it loads, or the message of the error it catches
fcrComplete(file) ==
    LET results == PapaParse(file)
        missing == missingColumns(results.fields)
    IN
    IF Len(results.data) = 0
    THEN [loaded |-> FALSE, data |-> <<>>,
          logs |-> <<LogEntry(Wrap("Error: ${error.message}", <<>>,
                                   Msg("No valid data found in file", <<>>)), "error")>>]
    ELSE IF Len(missing) > 0
    THEN [loaded |-> FALSE, data |-> <<>>,
          logs |-> <<LogEntry(Wrap("Error: ${error.message}", <<>>,
                                   Msg("Missing required columns: ${missingColumns.join(', ')}",
                                       <<join(missing, CommaSpace)>>)), "error")>>]
    ELSE [loaded |-> TRUE, data |-> results.data,
          logs |-> <<LogEntry(Msg("Detected delimiter: '${results.meta.delimiter}'",
                                  <<results.delimiter>>), "info"),
                     LogEntry(Msg("Successfully loaded ${results.data.length} records",
                                  <<NatToStr(Len(results.data))>>), "info")>>]

(***************************************************************************)
(* Spec: the pages as a state machine.  One page is mounted at a time; a   *)
(* file is chosen in a file input, Papa.parse reads it, and its callback   *)
(* runs later.                                                             *)
(***************************************************************************)
MaxInFlight == 1

NoOut ==
    [called |-> FALSE, fn |-> "", value |-> <<>>, first |-> <<>>, offset |-> 0, engine |-> ""]
MaxUploadRows == 1

\* the browser before a time zone or an engine showed in a result
NoBrowser == [offset |-> 0, engine |-> ""]

\* no request was handled yet
NoResponse == [op |-> "", id |-> 0, request |-> <<>>, status |-> 0, body |-> <<>>]

\* ProjectDetailPage is not mounted
NoDetail == [project |-> <<>>, copiedBoxes |-> <<>>]

\* localStorage without the two items: getItem gives null, read as {} and []
EmptyStorage == [copied |-> {}, history |-> <<>>]

Pages == {"POProcessor", "FCRGenerator", "FCRDraftGenerator"}
FCRPages == {"FCRGenerator", "FCRDraftGenerator"}

\* the variant of the FCR page that writes a fixed first line
FixedLiteralPage == "FCRDraftGeneratorFixed"
FCRVariants == FCRPages \cup {FixedLiteralPage}

QuoteError == <<"Q", "u", "o", "t", "e", "d", " ", "f", "i", "e", "l", "d", " ",
                "u", "n", "t", "e", "r", "m", "i", "n", "a", "t", "e", "d">>
ReadError == <<"r", "e", "a", "d", " ", "f", "a", "i", "l", "e", "d">>

Reversed(s) == [i \in 1..Len(s) |-> s[Len(s) + 1 - i]]

\* header lines of PO files: as expected, padded, reordered, with an extra
\* column, with a column left out
UploadPOFields == { PO_HEADERS,
                    << <<" ">> \o InvoiceCol, POCol, GoodsCol \o <<" ">> >>,
                    <<POCol, InvoiceCol, GoodsCol>>,
                    <<InvoiceCol, POCol, GoodsCol, ExtraCol>>,
                    <<InvoiceCol, POCol>> }

\* a file of MaxUploadRows data lines, all alike
FileOf(name, fields, line, quoteErrors) ==
    [name |-> name, fields |-> fields, lines |-> [i \in 1..MaxUploadRows |-> line],
     delimiter |-> Comma, quoteErrors |-> quoteErrors]

\* a file that holds a header line only, and an empty file
HeaderOnly(name, fields) ==
    [name |-> name, fields |-> fields, lines |-> <<>>, delimiter |-> Comma,
     quoteErrors |-> <<>>]
EmptyFile(name) == HeaderOnly(name, <<>>)

UploadRecycledFields == { RECYCLED_HEADERS, << <<" ">> \o POCol >>, <<POCol, ExtraCol>> }

UploadPOFiles ==
    {FileOf(PoCsv, f, <<A, P1, G1>>, <<>>) : f \in UploadPOFields}
    \cup {FileOf(PoCsv, PO_HEADERS, <<A, P1, G1>>, <<QuoteError>>),
          HeaderOnly(PoCsv, PO_HEADERS), EmptyFile(PoCsv)}

UploadRecycledFiles ==
    {FileOf(RecycledCsv, f, <<P1>>, <<>>) : f \in UploadRecycledFields}
    \cup {HeaderOnly(RecycledCsv, RECYCLED_HEADERS)}

\* header lines of FCR files: the required columns in order, reversed, with an
\* extra column, with a padded name, and with columns left out
UploadFCRFields ==
    { requiredColumns,
      Reversed(requiredColumns),
      <<ExtraCol>> \o requiredColumns,
      << <<" ">> \o EXPSerialCol >> \o Tail(requiredColumns) }
    \cup {SelectSeq(requiredColumns, LAMBDA c : c # x) : x \in Range(requiredColumns)}
    \cup { SelectSeq(Reversed(requiredColumns), LAMBDA c : c \notin {EXPSerialCol, GoodsCol})
             \o <<ExtraCol>>,
           SelectSeq(requiredColumns,
                     LAMBDA c : c \notin {InvoiceDateCol, DescriptionCol, EXPYearCol}) }

\* the data line of an FCR file under a header line: one cell per field
CellLetters == <<"a", "b", "c", "d", "e", "f", "g", "h", "i", "j", "k", "l", "m">>
FCRLine(fields) == [i \in 1..Len(fields) |-> <<"v", CellLetters[i]>>]

UploadFCRFiles ==
    {FileOf(FcrCsv, f, FCRLine(f), <<>>) : f \in UploadFCRFields}
    \cup {HeaderOnly(FcrCsv, requiredColumns)}

\* the files a user may choose on a page
FilesFor(p) ==
    IF p = "POProcessor" THEN UploadPOFiles \cup UploadRecycledFiles
    ELSE UploadFCRFiles \cup {f \in UploadPOFiles : f.fields = PO_HEADERS /\ f.quoteErrors = <<>>}

RemoveAt(s, i) == SubSeq(s, 1, i - 1) \o SubSeq(s, i + 1, Len(s))

Init ==
    /\ page = "POProcessor"
    /\ poData = Null
    /\ recycledPOsData = Null
    /\ inputData = Null
    /\ processedData = Null
    /\ isProcessing = FALSE
    /\ logs = <<>>
    /\ errors = <<>>
    /\ pending = <<>>
    /\ run = NoRun
    /\ arg = Undefined
    /\ out = NoOut
    /\ browser = NoBrowser
    /\ copiedBoxes = {}
    /\ copyHistory = <<>>
    /\ lastCopiedBoxId = Null
    /\ storage = EmptyStorage
    /\ saveTimer = FALSE
    /\ db = <<>>
    /\ response = NoResponse
    /\ detail = NoDetail
    /\ calls = <<>>

\* the router mounts another page: its state starts from the useState
\* defaults, and callbacks of the page left behind no longer change anything
Navigate(p) ==
    /\ p # page
    /\ page' = p
    /\ poData' = Null
    /\ recycledPOsData' = Null
    /\ inputData' = Null
    /\ processedData' = Null
    /\ isProcessing' = FALSE
    /\ logs' = <<>>
    /\ errors' = <<>>
    /\ pending' = <<>>
    /\ run' = NoRun
    /\ copiedBoxes' = IF p = "FCRGenerator" THEN storage.copied ELSE {}
    /\ copyHistory' = IF p = "FCRGenerator" THEN storage.history ELSE <<>>
    /\ lastCopiedBoxId' = Null
    /\ saveTimer' = (p = "FCRGenerator")
    /\ UNCHANGED <<serverVars, arg, out, browser, storage>>

\* POProcessor.clearLogs, the Clear button of the log panel
clearLogs ==
    /\ page = "POProcessor"
    /\ Len(logs) > 0
    /\ logs' = <<>>
    /\ errors' = <<>>
    /\ UNCHANGED <<serverVars, browser, copyVars, page, poData, recycledPOsData, inputData, processedData, isProcessing,
                   pending, run, arg, out>>

expectedHeadersOf(fileType) == IF fileType = "po" THEN PO_HEADERS ELSE RECYCLED_HEADERS

\* POProcessor.handleFileUpload up to the await of parseCSVFile
handleFileUpload(file, fileType) ==
    /\ page = "POProcessor"
    /\ Len(pending) < MaxInFlight
    /\ logs' = addLog(<<>>, Msg("Reading file: ${file.name}", <<file.name>>), "info")
    /\ errors' = <<>>
    /\ pending' = Append(pending, [file |-> file, fileType |-> fileType])
    /\ UNCHANGED <<serverVars, browser, copyVars, page, poData, recycledPOsData, inputData, processedData, isProcessing,
                   run, arg, out>>

\* the complete callback of parseCSVFile and the rest of handleFileUpload
parseComplete(i) ==
    /\ page = "POProcessor"
    /\ i \in 1..Len(pending)
    /\ LET file == pending[i].file
           fileType == pending[i].fileType
           res == parseCSVFile(file, expectedHeadersOf(fileType))
           failure == Wrap("Error loading ${file.name}: ${error.message}",
                           <<file.name>>, res.error)
           loaded == IF fileType = "po"
                     THEN Msg("PO data loaded: ${data.length} records",
                              <<NatToStr(Len(res.data))>>)
                     ELSE Msg("Recycled POs data loaded: ${data.length} records",
                              <<NatToStr(Len(res.data))>>)
       IN /\ logs' = IF res.resolved THEN addLog(logs \o res.logs, loaded, "info")
                     ELSE addLog(logs \o res.logs, failure, "error")
          /\ errors' = IF res.resolved THEN errors ELSE Append(errors, failure)
          /\ poData' = IF res.resolved /\ fileType = "po" THEN Some(res.data) ELSE poData
          /\ recycledPOsData' = IF res.resolved /\ fileType = "recycled"
                                THEN Some(res.data) ELSE recycledPOsData
    /\ pending' = RemoveAt(pending, i)
    /\ UNCHANGED <<serverVars, browser, copyVars, page, inputData, processedData, isProcessing, run, arg, out>>

\* the error callback of parseCSVFile: the file could not be read
parseError(i) ==
    /\ page = "POProcessor"
    /\ i \in 1..Len(pending)
    /\ LET file == pending[i].file
           failure == Wrap("Error loading ${file.name}: ${error.message}", <<file.name>>,
                           Msg("Failed to parse ${fileName}: ${error.message}",
                               <<file.name, ReadError>>))
       IN /\ logs' = addLog(logs, failure, "error")
          /\ errors' = Append(errors, failure)
    /\ pending' = RemoveAt(pending, i)
    /\ UNCHANGED <<serverVars, browser, copyVars, page, poData, recycledPOsData, inputData, processedData, isProcessing,
                   run, arg, out>>

\* handleFileUpload of the FCR pages up to the return of Papa.parse
fcrHandleFileUpload(file) ==
    /\ page \in FCRVariants
    /\ Len(pending) < MaxInFlight
    /\ logs' = addLog(<<>>, Msg("Reading file: ${file.name}", <<file.name>>), "info")
    /\ pending' = Append(pending, [file |-> file, fileType |-> "fcr"])
    /\ UNCHANGED <<serverVars, browser, copyVars, page, poData, recycledPOsData, inputData, processedData, isProcessing,
                   errors, run, arg, out>>

\* the complete callback of the FCR handleFileUpload
fcrParseComplete(i) ==
    /\ page \in FCRVariants
    /\ i \in 1..Len(pending)
    /\ LET res == fcrComplete(pending[i].file)
       IN /\ logs' = logs \o res.logs
          /\ inputData' = IF res.loaded THEN Some(res.data) ELSE inputData
    /\ pending' = RemoveAt(pending, i)
    /\ UNCHANGED <<serverVars, browser, copyVars, page, poData, recycledPOsData, processedData, isProcessing, errors,
                   run, arg, out>>

\* the error callback of the FCR handleFileUpload
fcrParseError(i) ==
    /\ page \in FCRVariants
    /\ i \in 1..Len(pending)
    /\ logs' = addLog(logs, Msg("Failed to parse file: ${error.message}", <<ReadError>>),
                      "error")
    /\ pending' = RemoveAt(pending, i)
    /\ UNCHANGED <<serverVars, browser, copyVars, page, poData, recycledPOsData, inputData, processedData, isProcessing,
                   errors, run, arg, out>>

(***************************************************************************)
(* SpecProcess: POProcessor with both datasets loaded; processData runs on *)
(* them.                                                                   *)
(***************************************************************************)

InitProcess ==
    /\ page = "POProcessor"
    /\ poData \in Loaded(FilesOf(PoCsv, AcceptedPOFields, POLinePool, MaxRows), PO_HEADERS)
    /\ recycledPOsData \in Loaded(FilesOf(RecycledCsv, AcceptedRecycledFields,
                                          RecycledLinePool, MaxRecycledRows),
                                  RECYCLED_HEADERS)
    /\ inputData = Null
    /\ processedData = Null
    /\ isProcessing = FALSE
    /\ logs = <<>>
    /\ errors = <<>>
    /\ pending = <<>>
    /\ run = NoRun
    /\ arg = Undefined
    /\ out = NoOut
    /\ browser = NoBrowser
    /\ copiedBoxes = {}
    /\ copyHistory = <<>>
    /\ lastCopiedBoxId = Null
    /\ storage = EmptyStorage
    /\ saveTimer = FALSE
    /\ db = <<>>
    /\ response = NoResponse
    /\ detail = NoDetail
    /\ calls = <<>>

NextProcess == processData

SpecProcess == InitProcess /\ [][NextProcess]_vars

(***************************************************************************)
(* Claims about the invoice aggregation (SpecProcess).  The statements are *)
(* written over the rows handed to the run, not over the run's maps.       *)
(***************************************************************************)
\* the trimmed invoice number of a row, when it has a non-empty one
InvoiceOf(row) == optTrim(Get(row, InvoiceCol))
HasInvoice(row) == truthy(InvoiceOf(row))

\* the trimmed, non-empty values of a column over the rows of one invoice, in
\* row order
RECURSIVE Collected(_, _, _)
Collected(rows, inv, col) ==
    IF Len(rows) = 0 THEN <<>>
    ELSE LET v == optTrim(Get(rows[1], col))
             here == IF HasInvoice(rows[1]) /\ Val(InvoiceOf(rows[1])) = inv /\ truthy(v)
                     THEN <<Val(v)>> ELSE <<>>
         IN here \o Collected(Tail(rows), inv, col)

InvoicesOf(rows) == {Val(InvoiceOf(rows[i])) : i \in {j \in 1..Len(rows) : HasInvoice(rows[j])}}

FirstSeen(rows, inv) ==
    SetMin({i \in 1..Len(rows) : HasInvoice(rows[i]) /\ Val(InvoiceOf(rows[i])) = inv})

RunDone == run.called /\ run.ok /\ processedData # Null
Records == Val(processedData)

SomeRecycled(pos, set) == \E x \in Range(pos) : x \in set
SomeNormal(pos, set) == \E x \in Range(pos) : x # <<>> /\ x \notin set

\* C1: in PO mode every invoice's material type is decided from its complete
\* collected PO list: MIXED when some PO is in the recycled set and some
\* non-empty PO is not, RECYCLED when only the former holds, else NORMAL (also
\* for an empty PO list).
C1_TypeFromCollectedPOs ==
    RunDone =>
        \A i \in 1..Len(Records) :
            LET pos == Collected(run.rows, Records[i].InvoiceNumber, POCol)
                rec == SomeRecycled(pos, run.recycledPOsSet)
                nor == SomeNormal(pos, run.recycledPOsSet)
            IN Records[i].Description =
                   IF rec /\ nor THEN TYPE_MIXED
                   ELSE IF rec THEN TYPE_RECYCLED
                   ELSE TYPE_NORMAL

\* POs [P1, P2] with the recycled set {P1} gave MIXED
C1_Witness ==
    /\ RunDone
    /\ run.recycledPOsSet = {P1}
    /\ \E i \in 1..Len(Records) :
           /\ Collected(run.rows, Records[i].InvoiceNumber, POCol) = <<P1, P2>>
           /\ Records[i].Description = TYPE_MIXED

\* C2 as written: MIXED iff some PO is in the set and some non-empty PO is
\* not; RECYCLED iff all POs present are in the set; NORMAL in every other
\* case.
C2_AsWritten ==
    RunDone =>
        \A i \in 1..Len(Records) :
            LET pos == Collected(run.rows, Records[i].InvoiceNumber, POCol)
                mixed == SomeRecycled(pos, run.recycledPOsSet)
                            /\ SomeNormal(pos, run.recycledPOsSet)
                allIn == \A x \in Range(pos) : x \in run.recycledPOsSet
            IN /\ Records[i].Description = TYPE_MIXED <=> mixed
               /\ Records[i].Description = TYPE_RECYCLED <=> allIn
               /\ Records[i].Description = TYPE_NORMAL <=> (~mixed /\ ~allIn)

\* C2, amended: MIXED iff some PO is in the set and some non-empty PO is not;
\* RECYCLED iff the invoice has at least one PO and all its POs are in the
\* set; NORMAL in every other case, an invoice without POs included.
C2_TypeInvariant ==
    RunDone =>
        \A i \in 1..Len(Records) :
            LET pos == Collected(run.rows, Records[i].InvoiceNumber, POCol)
                mixed == SomeRecycled(pos, run.recycledPOsSet)
                            /\ SomeNormal(pos, run.recycledPOsSet)
                allIn == pos # <<>> /\ \A x \in Range(pos) : x \in run.recycledPOsSet
            IN /\ Records[i].Description = TYPE_MIXED <=> mixed
               /\ Records[i].Description = TYPE_RECYCLED <=> allIn
               /\ Records[i].Description = TYPE_NORMAL <=> (~mixed /\ ~allIn)

\* one invoice without POs (NORMAL) next to one whose POs are all recycled
C2_Witness ==
    /\ RunDone
    /\ \E i, j \in 1..Len(Records) :
           /\ Collected(run.rows, Records[i].InvoiceNumber, POCol) = <<>>
           /\ Records[i].Description = TYPE_NORMAL
           /\ Collected(run.rows, Records[j].InvoiceNumber, POCol) # <<>>
           /\ Records[j].Description = TYPE_RECYCLED

\* C3: the output records are in the order in which each invoice number is
\* first seen in the rows, whatever the invoice numbers are (strings of digits
\* included).
C3_FirstSeenOrder ==
    RunDone =>
        \A i, j \in 1..Len(Records) :
            i < j => FirstSeen(run.rows, Records[i].InvoiceNumber)
                        < FirstSeen(run.rows, Records[j].InvoiceNumber)

\* C4: a processing run yields exactly one record per distinct non-empty
\* trimmed invoice number, whose PO Numbers and Goods are the bare-comma joins
\* of the trimmed non-empty values of exactly that invoice's rows, in row
\* order; rows without an invoice number contribute to no record.
C4_OneRecordPerInvoice ==
    run.called =>
        /\ RunDone
        /\ {Records[i].InvoiceNumber : i \in 1..Len(Records)} = InvoicesOf(run.rows)
        /\ Len(Records) = Cardinality(InvoicesOf(run.rows))
        /\ \A i \in 1..Len(Records) :
               /\ Records[i].PONumbers
                      = join(Collected(run.rows, Records[i].InvoiceNumber, POCol), Comma)
               /\ Records[i].Goods
                      = join(Collected(run.rows, Records[i].InvoiceNumber, GoodsCol), Comma)

(***************************************************************************)
(* Claims about header validation (Spec).  A step in which the callback of *)
(* the i-th parse in flight runs takes pending[i] out of pending and       *)
(* leaves the page mounted.                                                *)
(***************************************************************************)
IsPrefix(p, s) == Len(p) <= Len(s) /\ SubSeq(s, 1, Len(p)) = p

\* String.prototype.split: the pieces of s between the occurrences of sep,
\* found from left to right
Occurrences(s, sep) ==
    {i \in 1..Len(s) - Len(sep) + 1 : SubSeq(s, i, i + Len(sep) - 1) = sep}

RECURSIVE SplitFrom(_, _, _)
SplitFrom(s, sep, start) ==
    LET next == {i \in Occurrences(s, sep) : i >= start}
    IN IF next = {} THEN <<SubSeq(s, start, Len(s))>>
       ELSE <<SubSeq(s, start, SetMin(next) - 1)>>
                \o SplitFrom(s, sep, SetMin(next) + Len(sep))

Split(s, sep) == SplitFrom(s, sep, 1)

Last(s) == s[Len(s)]

CallbackRan(i) ==
    /\ i \in 1..Len(pending)
    /\ page' = page
    /\ pending' = RemoveAt(pending, i)

\* the callback that ran was the error callback: the file could not be read
ReadFailed(ls) ==
    /\ Len(ls) > 0
    /\ \/ Last(ls).message.inner = "Failed to parse ${fileName}: ${error.message}"
       \/ Last(ls).message.tpl = "Failed to parse file: ${error.message}"

\* a column list is enumerated by a message that interpolates it, its names
\* in order and separated by ', '
Enumerates(message, columns) ==
    \E k \in 1..Len(message.args) : Split(message.args[k], CommaSpace) = columns

ExpectedColumns(fileType) ==
    IF fileType = "po" THEN <<InvoiceCol, POCol, GoodsCol>> ELSE <<POCol>>

\* C5: on the PO page a parsed file is loaded only when its trimmed header
\* sequence equals the expected sequence exactly and in order; with any other
\* header (reordered, extra or missing column) the upload fails with an error
\* and neither dataset changes.
C5_ExactHeaderMatch ==
    [][\A i \in 1..Len(pending) :
         (page = "POProcessor" /\ CallbackRan(i) /\ ~ReadFailed(logs')) =>
            LET file == pending[i].file
                fileType == pending[i].fileType
                rows == [n \in 1..Len(file.lines) |-> Row(file.fields, file.lines[n])]
            IN IF map(file.fields, trim) = ExpectedColumns(fileType) /\ Len(file.lines) > 0
               THEN /\ errors' = errors
                    /\ fileType = "po" => poData' = Some(rows)
                    /\ fileType = "recycled" => recycledPOsData' = Some(rows)
               ELSE /\ poData' = poData
                    /\ recycledPOsData' = recycledPOsData
                    /\ Len(errors') = Len(errors) + 1
                    /\ Last(logs').type = "error"]_vars

\* the reordered header PO, Invoice, Goods was refused and nothing is loaded
C5_Witness ==
    /\ page = "POProcessor"
    /\ poData = Null
    /\ pending = <<>>
    /\ Len(errors) = 1
    /\ errors[1].inner = "Header mismatch in ${fileName}. Expected: [${normalizedExpected.join(', ')}], Got: [${normalizedHeaders.join(', ')}]"
    /\ Split(errors[1].args[4], CommaSpace) = <<POCol, InvoiceCol, GoodsCol>>

\* the required columns a header line lacks
Lacking(fields) == Range(requiredColumns) \ Range(fields)

NoNewError(before, after) ==
    \A k \in Len(before) + 1..Len(after) : after[k].type # "error"

\* C6: on the FCR pages a parsed file with data rows is loaded if and only if
\* each of the 12 required columns is among its header fields, whatever their
\* order and whatever other columns there are; when it is refused, the error
\* names exactly the required columns that are missing.
C6_RequiredColumnsPresent ==
    [][\A i \in 1..Len(pending) :
         (page \in FCRPages /\ CallbackRan(i) /\ ~ReadFailed(logs')
            /\ Len(pending[i].file.lines) > 0) =>
            LET file == pending[i].file
                rows == [n \in 1..Len(file.lines) |-> Row(file.fields, file.lines[n])]
            IN IF Lacking(file.fields) = {}
               THEN /\ inputData' = Some(rows)
                    /\ NoNewError(logs, logs')
               ELSE /\ inputData' = inputData
                    /\ Len(logs') = Len(logs) + 1
                    /\ Last(logs').type = "error"
                    /\ Last(logs').message.inner = "Missing required columns: ${missingColumns.join(', ')}"
                    /\ LET named == Split(Last(logs').message.args[1], CommaSpace)
                       IN /\ Range(named) = Lacking(file.fields)
                          /\ Len(named) = Cardinality(Lacking(file.fields))]_vars

\* a file whose header lacks EXP Serial and Goods was refused, and the error
\* names these two
C6_Witness ==
    /\ page \in FCRPages
    /\ inputData = Null
    /\ pending = <<>>
    /\ Len(logs) = 2
    /\ logs[2].type = "error"
    /\ logs[2].message.inner = "Missing required columns: ${missingColumns.join(', ')}"
    /\ Range(Split(logs[2].message.args[1], CommaSpace)) = {EXPSerialCol, GoodsCol}

\* the header of the file failed the validation of its page
ValidationFailed(p, file, fileType) ==
    /\ Len(file.lines) > 0
    /\ Len(file.fields) > 0
    /\ IF p = "POProcessor" THEN map(file.fields, trim) # ExpectedColumns(fileType)
       ELSE Lacking(file.fields) # {}

EnumeratesActual(message, file) ==
    Enumerates(message, file.fields) \/ Enumerates(message, map(file.fields, trim))

NaN == [nan |-> TRUE, neg |-> FALSE, int |-> <<>>, frac |-> <<>>]

RECURSIVE StripLeadingZeros(_)
StripLeadingZeros(ds) ==
    IF Len(ds) > 1 /\ ds[1] = "0" THEN StripLeadingZeros(Tail(ds)) ELSE ds

RECURSIVE StripTrailingZeros(_)
StripTrailingZeros(ds) ==
    IF Len(ds) > 0 /\ ds[Len(ds)] = "0"
    THEN StripTrailingZeros(SubSeq(ds, 1, Len(ds) - 1)) ELSE ds

Number(neg, int, frac) ==
    [nan |-> FALSE, neg |-> neg,
     int |-> IF int = <<>> THEN <<"0">> ELSE StripLeadingZeros(int),
     frac |-> StripTrailingZeros(frac)]

IsZero(n) == ~n.nan /\ n.int = <<"0">> /\ n.frac = <<>>

\* String.prototype.trimStart, the first step of parseFloat and parseInt
trimStart(s) ==
    LET idx == {i \in 1..Len(s) : s[i] \notin WhiteSpace}
    IN IF idx = {} THEN <<>> ELSE SubSeq(s, SetMin(idx), Len(s))

\* the longest prefix of s made of characters of the set
LongestPrefix(s, set) ==
    LET stop == {i \in 1..Len(s) : s[i] \notin set}
    IN IF stop = {} THEN s ELSE SubSeq(s, 1, SetMin(stop) - 1)

\* the longest prefix of s that is a StrDecimalLiteral: an optional sign,
\* digits, and a '.' with digits; len is the number of characters it takes
ScanDecimal(s) ==
    LET signed == Len(s) > 0 /\ s[1] \in {"-", "+"}
        body == IF signed THEN Tail(s) ELSE s
        int == LongestPrefix(body, Digits)
        rest == SubSeq(body, Len(int) + 1, Len(body))
        dot == Len(rest) > 0 /\ rest[1] = "."
        frac == IF dot THEN LongestPrefix(Tail(rest), Digits) ELSE <<>>
        ok == Len(int) > 0 \/ Len(frac) > 0
    IN [ok |-> ok,
        value |-> IF ok THEN Number(signed /\ s[1] = "-", int, frac) ELSE NaN,
        len |-> (IF signed THEN 1 ELSE 0) + Len(int) + (IF dot THEN 1 + Len(frac) ELSE 0)]

\* String(x) of an optional string
String(o) ==
    IF IsSome(o) THEN Val(o) ELSE <<"u", "n", "d", "e", "f", "i", "n", "e", "d">>

\* parseFloat(x): the number at the start of String(x), whatever follows it
parseFloat(o) == ScanDecimal(trimStart(String(o))).value

\* isNaN
isNaN(n) == n.nan

\* ToNumber of an optional string: the whole trimmed string is the literal,
\* '' is 0 and undefined is NaN
ToNumber(o) ==
    IF ~IsSome(o) THEN NaN
    ELSE LET s == trim(Val(o))
             scan == ScanDecimal(s)
         IN IF s = <<>> THEN Number(FALSE, <<>>, <<>>)
            ELSE IF scan.ok /\ scan.len = Len(s) THEN scan.value
            ELSE NaN

RECURSIVE DigitsToNat(_)
DigitsToNat(ds) ==
    IF Len(ds) = 0 THEN 0
    ELSE 10 * DigitsToNat(SubSeq(ds, 1, Len(ds) - 1)) + DigitVal(ds[Len(ds)])

\* ToInt32: NaN is 0, another value is truncated toward zero
ToInt32(n) ==
    IF n.nan THEN 0
    ELSE IF n.neg THEN 0 - DigitsToNat(n.int)
    ELSE DigitsToNat(n.int)

\* Number.prototype.toString()
numberToString(n) ==
    IF n.nan THEN <<"N", "a", "N">>
    ELSE IF IsZero(n) THEN <<"0">>
    ELSE (IF n.neg THEN <<"-">> ELSE <<>>) \o n.int
           \o (IF n.frac = <<>> THEN <<>> ELSE <<".">> \o n.frac)

\* String(parseFloat), the source text of a built-in function
ParseFloatSource ==
    <<
       "f", "u", "n", "c", "t", "i", "o", "n", " ", "p", "a", "r", "s",
       "e", "F", "l", "o", "a", "t", "(", ")", " ", "{", " ", "[", "n",
       "a", "t", "i", "v", "e", " ", "c", "o", "d", "e", "]", " ", "}"
    >>

Letters ==
    <<"a", "b", "c", "d", "e", "f", "g", "h", "i", "j", "k", "l", "m",
      "n", "o", "p", "q", "r", "s", "t", "u", "v", "w", "x", "y", "z">>

CapitalLetters ==
    <<"A", "B", "C", "D", "E", "F", "G", "H", "I", "J", "K", "L", "M",
      "N", "O", "P", "Q", "R", "S", "T", "U", "V", "W", "X", "Y", "Z">>

\* the value of a character as a digit of parseInt, 36 when it is none
RadixDigitVal(c) ==
    IF c \in Digits THEN DigitVal(c)
    ELSE IF \E k \in 1..26 : Letters[k] = c
    THEN 9 + CHOOSE k \in 1..26 : Letters[k] = c
    ELSE IF \E k \in 1..26 : CapitalLetters[k] = c
    THEN 9 + CHOOSE k \in 1..26 : CapitalLetters[k] = c
    ELSE 36

Reverse(s) == [i \in 1..Len(s) |-> s[Len(s) + 1 - i]]

\* ds * m + carry on decimal digits, the least significant digit first
RECURSIVE MulAdd(_, _, _)
MulAdd(ds, m, carry) ==
    IF Len(ds) = 0
    THEN IF carry = 0 THEN <<>>
         ELSE <<DigitChar(carry % 10)>> \o MulAdd(<<>>, m, carry \div 10)
    ELSE LET v == DigitVal(ds[1]) * m + carry
         IN <<DigitChar(v % 10)>> \o MulAdd(Tail(ds), m, v \div 10)

\* the mathematical integer value of the digits zs in radix R
RECURSIVE RadixValue(_, _, _)
RadixValue(zs, R, acc) ==
    IF Len(zs) = 0 THEN acc
    ELSE RadixValue(Tail(zs), R, MulAdd(acc, R, RadixDigitVal(zs[1])))

\* parseInt(string, radix) on String(string) and ToInt32(radix)
parseInt(inputString, radix) ==
    LET S == trimStart(inputString)
        signed == Len(S) > 0 /\ S[1] \in {"-", "+"}
        body == IF signed THEN Tail(S) ELSE S
        R == IF radix = 0 THEN 10 ELSE radix
        stripPrefix == radix = 0 \/ radix = 16
        hex == stripPrefix /\ Len(body) >= 2 /\ body[1] = "0" /\ body[2] \in {"x", "X"}
        R2 == IF hex THEN 16 ELSE R
        body2 == IF hex THEN SubSeq(body, 3, Len(body)) ELSE body
        stop == {i \in 1..Len(body2) : RadixDigitVal(body2[i]) >= R2}
        Z == IF stop = {} THEN body2 ELSE SubSeq(body2, 1, SetMin(stop) - 1)
    IN IF radix # 0 /\ (radix < 2 \/ radix > 36) THEN NaN
       ELSE IF Len(Z) = 0 THEN NaN
       ELSE Number(signed /\ S[1] = "-", Reverse(RadixValue(Z, R2, <<>>)), <<>>)

\* String.prototype.padStart with a pad string of one character
padStart(s, targetLength, padString) ==
    IF Len(s) >= targetLength THEN s
    ELSE [i \in 1..targetLength - Len(s) |-> padString] \o s

(***************************************************************************)
(* The field normalizers of the FCR pages.  No call in their try blocks    *)
(* throws on a string or on undefined, so the catch branches never run.    *)
(***************************************************************************)
\* parseInt(parseFloat, expSerial): the function is the string to parse and
\* the serial is the radix; the result is padded to 6 characters
formatExpSerialFCRGenerator(expSerial) ==
    LET cleanSerial == parseInt(ParseFloatSource, ToInt32(ToNumber(expSerial)))
    IN padStart(numberToString(cleanSerial), 6, "0")

\* parseInt(parseFloat(expSerial), 10), padded to 6 characters
formatExpSerial(expSerial) ==
    LET cleanSerial == parseInt(numberToString(parseFloat(expSerial)), 10)
    IN padStart(numberToString(cleanSerial), 6, "0")

formatNumber(value) ==
    IF ~truthy(value) THEN <<>>
    ELSE LET num == parseFloat(value)
         IN IF isNaN(num) THEN String(value) ELSE numberToString(num)

(***************************************************************************)
(* Dates.  new Date(string) is defined by the language for the date-only   *)
(* forms YYYY, YYYY-MM and YYYY-MM-DD, which denote midnight UTC; a string *)
(* without a digit is no date in any engine.  What another string gives is *)
(* left to the engine.  Two engines are told apart: V8 reads NN-NN-NNNN as *)
(* month, day and year at local midnight, and lets a day up to 31 that the *)
(* month does not have run over into the next month; a strict engine takes *)
(* neither for a date.  formatDate is applied here to strings of these     *)
(* forms only.                                                             *)
(***************************************************************************)
InvalidDate == [valid |-> FALSE, year |-> 0, month |-> 0, day |-> 0, utc |-> FALSE]

Engines == {"V8", "strict"}

AllDigits(s) == \A i \in 1..Len(s) : s[i] \in Digits

IsLeap(y) == (y % 4 = 0 /\ y % 100 # 0) \/ y % 400 = 0

DaysIn(y, m) ==
    IF m = 2 THEN (IF IsLeap(y) THEN 29 ELSE 28)
    ELSE IF m \in {4, 6, 9, 11} THEN 30 ELSE 31

\* s has one of the date-only forms
IsDateOnlyForm(s) ==
    /\ Len(s) \in {4, 7, 10}
    /\ AllDigits(SubSeq(s, 1, 4))
    /\ Len(s) >= 7 => s[5] = "-" /\ AllDigits(SubSeq(s, 6, 7))
    /\ Len(s) = 10 => s[8] = "-" /\ AllDigits(SubSeq(s, 9, 10))

\* s has the form NN-NN-NNNN
IsDayMonthYearForm(s) ==
    /\ Len(s) = 10
    /\ AllDigits(SubSeq(s, 1, 2)) /\ s[3] = "-"
    /\ AllDigits(SubSeq(s, 4, 5)) /\ s[6] = "-"
    /\ AllDigits(SubSeq(s, 7, 10))

\* new Date(dateStr) is modelled
DateParseDefined(dateStr) ==
    \/ \A i \in 1..Len(dateStr) : dateStr[i] \notin Digits
    \/ IsDateOnlyForm(dateStr)
    \/ IsDayMonthYearForm(dateStr)

\* MakeDay: the calendar day of day d of month m, d up to 31
MakeDay(y, m, d, utc) ==
    IF d <= DaysIn(y, m) THEN [valid |-> TRUE, year |-> y, month |-> m, day |-> d, utc |-> utc]
    ELSE IF m < 12
    THEN [valid |-> TRUE, year |-> y, month |-> m + 1, day |-> d - DaysIn(y, m), utc |-> utc]
    ELSE [valid |-> TRUE, year |-> y + 1, month |-> 1, day |-> d - DaysIn(y, m), utc |-> utc]

\* the calendar day of new Date(dateStr), and whether it is the day at
\* midnight UTC or at local midnight
DateParse(dateStr, engine) ==
    IF IsDateOnlyForm(dateStr)
    THEN LET y == DigitsToNat(SubSeq(dateStr, 1, 4))
             m == IF Len(dateStr) >= 7 THEN DigitsToNat(SubSeq(dateStr, 6, 7)) ELSE 1
             d == IF Len(dateStr) = 10 THEN DigitsToNat(SubSeq(dateStr, 9, 10)) ELSE 1
         IN IF m \in 1..12 /\ d \in 1..DaysIn(y, m) THEN MakeDay(y, m, d, TRUE)
            ELSE IF engine = "V8" /\ m \in 1..12 /\ d \in 1..31 THEN MakeDay(y, m, d, TRUE)
            ELSE InvalidDate
    ELSE IF IsDayMonthYearForm(dateStr) /\ engine = "V8"
    THEN LET m == DigitsToNat(SubSeq(dateStr, 1, 2))
             d == DigitsToNat(SubSeq(dateStr, 4, 5))
             n == DigitsToNat(SubSeq(dateStr, 7, 10))
             y == IF n <= 49 THEN n + 2000 ELSE IF n <= 99 THEN n + 1900 ELSE n
         IN IF m \in 1..12 /\ d \in 1..31 THEN MakeDay(y, m, d, FALSE)
            ELSE InvalidDate
    ELSE InvalidDate

\* the minutes the local time zone is ahead of UTC
TimezoneOffsets == {0 - 300, 0, 360}

\* the local calendar day at midnight UTC of the day date
LocalDay(date, offset) ==
    IF offset >= 0 \/ ~date.utc THEN date
    ELSE IF date.day > 1 THEN [date EXCEPT !.day = date.day - 1]
    ELSE IF date.month > 1
    THEN [date EXCEPT !.month = date.month - 1,
                      !.day = DaysIn(date.year, date.month - 1)]
    ELSE [date EXCEPT !.year = date.year - 1, !.month = 12, !.day = 31]

IntToStr(n) == IF n < 0 THEN <<"-">> \o NatToStr(0 - n) ELSE NatToStr(n)

formatDate(dateStr, offset, engine) ==
    IF ~truthy(dateStr) THEN <<>>
    ELSE LET date == DateParse(Val(dateStr), engine)
         IN IF ~date.valid THEN String(dateStr)
            ELSE LET local == LocalDay(date, offset)
                     day == padStart(NatToStr(local.day), 2, "0")
                     month == padStart(NatToStr(local.month), 2, "0")
                     year == IntToStr(local.year)
                 IN day \o <<"-">> \o month \o <<"-">> \o year

(***************************************************************************)
(* SpecFormat: a field of a row handed to one normalizer of the page.  A   *)
(* field is undefined or a string; the strings are all those of at most    *)
(* MaxStrLen characters of Alphabet and the ones of ExampleFields.         *)
(***************************************************************************)
MaxStrLen == 3

Alphabet == {"0", "1", "2", "3", "7", "9", ".", "-", " ", "a"}

ExampleFields ==
    {<<"1", "2", ".", "9">>, <<"0", "0", "0", "7">>, <<"2", "0", "1", "9">>,
     <<"2", "0", "2", "4", "-", "0", "3">>,
     <<"2", "0", "2", "4", "-", "0", "3", "-", "0", "1">>,
     <<"2", "0", "2", "4", "-", "0", "1", "-", "0", "1">>,
     <<"2", "0", "2", "3", "-", "1", "2", "-", "3", "1">>,
     <<"2", "0", "2", "3", "-", "1", "3", "-", "0", "1">>,
     <<"2", "0", "2", "4", "-", "0", "1", "-", "0", "5">>,
     <<"2", "0", "2", "4", "-", "0", "1", "-", "2", "5">>,
     <<"2", "0", "2", "3", "-", "0", "2", "-", "3", "0">>,
     <<"0", "5", "-", "0", "1", "-", "2", "0", "2", "4">>,
     <<"2", "5", "-", "0", "1", "-", "2", "0", "2", "4">>}

Fields ==
    {Undefined}
      \cup {Some(s) : s \in UNION {[1..n -> Alphabet] : n \in 0..MaxStrLen}}
      \cup {Some(s) : s \in ExampleFields}

InitFormat ==
    /\ page \in FCRPages
    /\ arg \in Fields
    /\ poData = Null
    /\ recycledPOsData = Null
    /\ inputData = Null
    /\ processedData = <<>>
    /\ isProcessing = FALSE
    /\ logs = <<>>
    /\ errors = <<>>
    /\ pending = <<>>
    /\ run = NoRun
    /\ out = NoOut
    /\ browser = NoBrowser
    /\ copiedBoxes = {}
    /\ copyHistory = <<>>
    /\ lastCopiedBoxId = Null
    /\ storage = EmptyStorage
    /\ saveTimer = FALSE
    /\ db = <<>>
    /\ response = NoResponse
    /\ detail = NoDetail
    /\ calls = <<>>

FormatFrame ==
    UNCHANGED <<serverVars, browser, copyVars, page, poData, recycledPOsData, inputData, processedData,
                isProcessing, logs, errors, pending, run, arg>>

callFormatExpSerial ==
    /\ ~out.called
    /\ out' = [NoOut EXCEPT !.called = TRUE, !.fn = "formatExpSerial",
                            !.value = IF page = "FCRGenerator"
                                      THEN formatExpSerialFCRGenerator(arg)
                                      ELSE formatExpSerial(arg)]
    /\ FormatFrame

callFormatDate ==
    /\ ~out.called
    /\ IsSome(arg) => DateParseDefined(Val(arg))
    /\ \E offset \in TimezoneOffsets, engine \in Engines :
          out' = [NoOut EXCEPT !.called = TRUE, !.fn = "formatDate",
                               !.value = formatDate(arg, offset, engine),
                               !.offset = offset, !.engine = engine]
    /\ FormatFrame

\* formatDate(formatDate(arg)) in the same browser
callFormatDateAgain ==
    /\ out.called
    /\ out.fn = "formatDate"
    /\ DateParseDefined(out.value)
    /\ out' = [out EXCEPT !.fn = "formatDate(formatDate)", !.first = out.value,
                          !.value = formatDate(Some(out.value), out.offset, out.engine)]
    /\ FormatFrame

callFormatNumber ==
    /\ ~out.called
    /\ out' = [NoOut EXCEPT !.called = TRUE, !.fn = "formatNumber",
                            !.value = formatNumber(arg)]
    /\ FormatFrame

NextFormat ==
    callFormatExpSerial \/ callFormatDate \/ callFormatDateAgain \/ callFormatNumber

SpecFormat == InitFormat /\ [][NextFormat]_vars

(***************************************************************************)
(* Claims about the field normalizers (SpecFormat).                        *)
(***************************************************************************)
\* the field reads as a number that is not negative
ParsesAsNumber(o) ==
    /\ IsSome(o)
    /\ ~isNaN(parseFloat(o))
    /\ ~parseFloat(o).neg

\* the field is a string with some character in it that reads as no number
IsNonNumeric(o) == truthy(o) /\ isNaN(parseFloat(o))

IsEmptyOrMissing(o) == ~IsSome(o) \/ Val(o) = <<>>

\* C8 as written: on every FCR page formatExpSerial of an input that parses
\* as a number returns the integer part of the number, its decimals cut off,
\* left-padded with zeros to 6 digits ('7' gives '000007', '12.9' gives
\* '000012').
C8_IntegerPartPadded ==
    (out.called /\ out.fn = "formatExpSerial" /\ ParsesAsNumber(arg)) =>
        out.value = padStart(parseFloat(arg).int, 6, "0")

\* C9 as written: formatExpSerial returns a non-numeric serial unchanged.
C9_NonNumericUnchanged ==
    (out.called /\ out.fn = "formatExpSerial" /\ IsNonNumeric(arg)) =>
        out.value = Val(arg)

\* C10 as written: formatExpSerial, formatDate and formatNumber each return
\* the empty string when the input is the empty string or is missing.
C10_EmptyInEmptyOut ==
    (out.called /\ IsEmptyOrMissing(arg)) => out.value = <<>>

Dash == <<"-">>

\* C11 as written: formatDate is idempotent on the date strings it accepts,
\* formatDate(formatDate(s)) = formatDate(s), so that an already formatted
\* DD-MM-YYYY string ('05-01-2024', '25-01-2024') re-formats to itself.
C11_FormatDateIdempotent ==
    (out.fn = "formatDate(formatDate)" /\ truthy(arg)
        /\ DateParse(Val(arg), out.engine).valid) =>
        out.value = out.first

\* s writes a day of the calendar as YYYY-MM-DD
IsCalendarDate(s) ==
    /\ IsDateOnlyForm(s)
    /\ Len(s) = 10
    /\ DigitsToNat(SubSeq(s, 6, 7)) \in 1..12
    /\ DigitsToNat(SubSeq(s, 9, 10))
         \in 1..DaysIn(DigitsToNat(SubSeq(s, 1, 4)), DigitsToNat(SubSeq(s, 6, 7)))

\* no engine and no reader takes s for a date
IsNoDate(s) ==
    \/ \A i \in 1..Len(s) : s[i] \notin Digits
    \/ IsDateOnlyForm(s) /\ Len(s) >= 7 /\ DigitsToNat(SubSeq(s, 6, 7)) \notin 1..12

\* C12 as written: for a non-empty input that writes a calendar date,
\* formatDate returns that same day, month and year as two-digit day,
\* two-digit month and year joined by '-' ('2024-01-05' gives '05-01-2024');
\* for a non-empty input that is no date it returns the input unchanged.
C12_SameCalendarDate ==
    (out.fn = "formatDate" /\ truthy(arg)) =>
        /\ IsCalendarDate(Val(arg)) =>
              out.value = SubSeq(Val(arg), 9, 10) \o Dash \o SubSeq(Val(arg), 6, 7)
                            \o Dash \o IntToStr(DigitsToNat(SubSeq(Val(arg), 1, 4)))
        /\ IsNoDate(Val(arg)) => out.value = Val(arg)

\* the whole string, whitespace around it aside, is a decimal number
IsWhollyNumber(o) == truthy(o) /\ trim(Val(o)) # <<>> /\ ~isNaN(ToNumber(o))

\* C13 as written: for a non-empty input formatNumber returns the canonical
\* decimal string of the value (an integer without '.0') when the input is a
\* number, and the input unchanged otherwise: no input that is not wholly a
\* number ('12abc', 'INV001') is altered.
C13_NumberOrUnchanged ==
    (out.fn = "formatNumber" /\ truthy(arg)) =>
        IF IsWhollyNumber(arg) THEN out.value = numberToString(ToNumber(arg))
        ELSE out.value = Val(arg)

(***************************************************************************)
(* processData of the FCR pages: one record per row of inputData.  A third *)
(* variant of the page writes a fixed first line into formattedText.       *)
(***************************************************************************)
Browsers == {[offset |-> o, engine |-> e] : o \in TimezoneOffsets, e \in Engines}

FixedFirstLine ==
    <<"1", "0", "0", "%", " ", "P", "O", "R", "C", "E", "L", "A", "I", "N",
      " ", "T", "A", "B", "L", "E", "W", "A", "R", "E">>
OrderNoLabel ==
    <<"O", "R", "D", "E", "R", " ", "N", "O", ".", " ", ":", " ">>
GoodsLabel ==
    <<"D", "E", "S", "C", "R", "I", "P", "T", "I", "O", "N", " ", "O", "F",
      " ", "G", "O", "O", "D", "S", ".", " ", ":", " ">>
InvoiceNoLabel ==
    <<"I", "N", "V", "O", "I", "C", "E", " ", "N", "O", ".", " ", ":", " ">>
DateLabel ==
    <<"D", "A", "T", "E", ":", " ">>
ExpNoLabel ==
    <<"E", "X", "P", " ", "N", "O", ".", " ", ":", " ">>
ContractNoLabel ==
    <<"C", "O", "N", "T", "R", "A", "C", "T", " ", "N", "O", ".", " ", ":",
      " ">>
HsCodeLine ==
    <<"H", ".", " ", "S", ".", " ", "C", "O", "D", "E", ":", " ", "6", "9",
      "1", "1", ".", "1", "0", ".", "0", "0">>
CountryLabel ==
    <<"C", "O", "U", "N", "T", "R", "Y", ":", " ">>
BoxPrefix ==
    <<"b", "o", "x", "_">>

NewLine == <<"\n">>
Slash == <<"/">>

\* x || '' of an optional string
orEmpty(o) == IF truthy(o) THEN Val(o) ELSE <<>>

\* box ids counted from 1, a mutant
BoxIdFromOne(index) == BoxPrefix \o NatToStr(index + 1)

\* `box_${index}`
BoxId(index) == BoxPrefix \o NatToStr(index)

\* the callback of inputData.map, index counted from 0
fcrRecord(p, b, row, index) ==
    LET expSerial == IF p = "FCRGenerator"
                     THEN formatExpSerialFCRGenerator(Get(row, EXPSerialCol))
                     ELSE formatExpSerial(Get(row, EXPSerialCol))
        invoiceDate == formatDate(Get(row, InvoiceDateCol), b.offset, b.engine)
        entryDate == formatDate(Get(row, EntryDateCol), b.offset, b.engine)
        contactDate == formatDate(Get(row, DateOfContactCol), b.offset, b.engine)
        invoiceNo == formatNumber(Get(row, InvoiceNoCol))
        adCode == formatNumber(Get(row, ADCodeCol))
        expYear == formatNumber(Get(row, EXPYearCol))
    IN [id |-> BoxId(index),
        index |-> index + 1,
        description |-> orEmpty(Get(row, DescriptionCol)),
        poNumbers |-> orEmpty(Get(row, PONumbersCol)),
        goods |-> orEmpty(Get(row, GoodsCol)),
        invoiceNo |-> invoiceNo,
        invoiceDate |-> invoiceDate,
        adCode |-> adCode,
        expSerial |-> expSerial,
        expYear |-> expYear,
        entryDate |-> entryDate,
        lcContact |-> orEmpty(Get(row, LcContactCol)),
        contactDate |-> contactDate,
        countryCode |-> orEmpty(Get(row, CountryShortCodeCol)),
        formattedText |->
            (IF p = FixedLiteralPage THEN FixedFirstLine
             ELSE orEmpty(Get(row, DescriptionCol))) \o NewLine
            \o OrderNoLabel \o orEmpty(Get(row, PONumbersCol)) \o NewLine
            \o GoodsLabel \o orEmpty(Get(row, GoodsCol)) \o NewLine
            \o InvoiceNoLabel \o invoiceNo \o NewLine
            \o DateLabel \o invoiceDate \o NewLine
            \o ExpNoLabel \o adCode \o Slash \o expSerial \o Slash \o expYear \o NewLine
            \o DateLabel \o entryDate \o NewLine
            \o ContractNoLabel \o orEmpty(Get(row, LcContactCol)) \o NewLine
            \o DateLabel \o contactDate \o NewLine
            \o HsCodeLine \o NewLine
            \o CountryLabel \o orEmpty(Get(row, CountryShortCodeCol))]

\* a run that leaves out the rows whose EXP Serial is no number, a mutant
fcrProcessedNumericOnly(p, b, rows) ==
    LET kept == SelectSeq(rows, LAMBDA row : ~isNaN(parseFloat(Get(row, EXPSerialCol))))
    IN [k \in 1..Len(kept) |-> fcrRecord(p, b, kept[k], k - 1)]

\* inputData.map((row, index) => ...)
fcrProcessed(p, b, rows) == [k \in 1..Len(rows) |-> fcrRecord(p, b, rows[k], k - 1)]

\* the date fields of the rows are strings new Date is modelled for
DatesModelled(rows) ==
    \A k \in 1..Len(rows) : \A c \in {InvoiceDateCol, EntryDateCol, DateOfContactCol} :
        IsSome(Get(rows[k], c)) => DateParseDefined(Val(Get(rows[k], c)))

\* a date field of the rows parses in some engine: the records then show the
\* time zone and the engine of the browser
DatesShow(rows) ==
    \E k \in 1..Len(rows) : \E c \in {InvoiceDateCol, EntryDateCol, DateOfContactCol} :
        /\ truthy(Get(rows[k], c))
        /\ \E e \in Engines : DateParse(Val(Get(rows[k], c)), e).valid

\* the most entries the log is let grow to
MaxLogs == 7

\* processData of an FCR page; the button is disabled without inputData
fcrProcessData ==
    /\ page \in FCRVariants
    /\ inputData # Null
    /\ ~isProcessing
    /\ DatesModelled(Val(inputData))
    /\ Len(logs) + 3 <= MaxLogs
    /\ \E b \in Browsers :
          /\ browser \in {NoBrowser, b}
          /\ browser' = IF DatesShow(Val(inputData)) THEN b ELSE browser
          /\ processedData' = Some(fcrProcessed(page, b, Val(inputData)))
    /\ logs' = logs \o
          <<LogEntry(Msg("Starting FCR data processing", <<>>), "info"),
            LogEntry(Msg("Successfully processed ${processed.length} records",
                         <<NatToStr(Len(Val(inputData)))>>), "success"),
            LogEntry(Msg("Processing completed successfully", <<>>), "success")>>
    /\ isProcessing' = FALSE
    /\ UNCHANGED <<serverVars, page, poData, recycledPOsData, inputData, errors, pending, run,
                   arg, out, copyVars>>

\* the Clear Log button of an FCR page: setLogs([])
fcrClearLog ==
    /\ page \in FCRVariants
    /\ Len(logs) > 0
    /\ logs' = <<>>
    /\ UNCHANGED <<serverVars, page, poData, recycledPOsData, inputData, processedData, isProcessing,
                   errors, pending, run, arg, out, browser, copyVars>>

Next ==
    \/ \E p \in Pages : Navigate(p)
    \/ \E f \in FilesFor("POProcessor"), ft \in {"po", "recycled"} : handleFileUpload(f, ft)
    \/ \E i \in 1..Len(pending) : parseComplete(i)
    \/ \E i \in 1..Len(pending) : parseError(i)
    \/ processData
    \/ clearLogs
    \/ \E f \in FilesFor("FCRGenerator") : fcrHandleFileUpload(f)
    \/ \E i \in 1..Len(pending) : fcrParseComplete(i)
    \/ \E i \in 1..Len(pending) : fcrParseError(i)

Spec == Init /\ [][Next]_vars

(***************************************************************************)
(* SpecPages: the pages with all their handlers, the processing of the FCR *)
(* pages and their Clear Log button included, over fewer files.            *)
(***************************************************************************)
\* PO files: accepted, with a reordered header, with a quote error, and with
\* a header line only; recycled files: accepted, with an extra column, and
\* with a header line only
PagesPOFiles ==
    {FileOf(PoCsv, PO_HEADERS, <<A, P1, G1>>, <<>>),
     FileOf(PoCsv, <<POCol, InvoiceCol, GoodsCol>>, <<A, P1, G1>>, <<>>),
     FileOf(PoCsv, PO_HEADERS, <<A, P1, G1>>, <<QuoteError>>),
     HeaderOnly(PoCsv, PO_HEADERS),
     FileOf(RecycledCsv, RECYCLED_HEADERS, <<P1>>, <<>>),
     FileOf(RecycledCsv, <<POCol, ExtraCol>>, <<P1>>, <<>>),
     HeaderOnly(RecycledCsv, RECYCLED_HEADERS)}

\* FCR files: with the required columns in order and reversed, with three
\* columns left out, and with a header line only
PagesFCRFiles ==
    {FileOf(FcrCsv, requiredColumns, FCRLine(requiredColumns), <<>>),
     FileOf(FcrCsv, Reversed(requiredColumns), FCRLine(requiredColumns), <<>>),
     FileOf(FcrCsv, SelectSeq(requiredColumns,
                              LAMBDA c : c \notin {InvoiceDateCol, DescriptionCol, EXPYearCol}),
            FCRLine(Tail(Tail(Tail(requiredColumns)))), <<>>),
     HeaderOnly(FcrCsv, requiredColumns)}

NextPages ==
    \/ \E p \in Pages : Navigate(p)
    \/ \E f \in PagesPOFiles, ft \in {"po", "recycled"} : handleFileUpload(f, ft)
    \/ \E i \in 1..Len(pending) : parseComplete(i)
    \/ \E i \in 1..Len(pending) : parseError(i)
    \/ processData
    \/ clearLogs
    \/ \E f \in PagesFCRFiles : fcrHandleFileUpload(f)
    \/ \E i \in 1..Len(pending) : fcrParseComplete(i)
    \/ \E i \in 1..Len(pending) : fcrParseError(i)
    \/ fcrProcessData
    \/ fcrClearLog

SpecPages == Init /\ [][NextPages]_vars

(***************************************************************************)
(* SpecFCRProcess: an FCR page with a loaded file; processData runs on it. *)
(* The data lines are in the order of requiredColumns.                     *)
(***************************************************************************)
MaxFcrRows == 2

GoodLine ==
    <<<<"7">>, <<"2", "0", "2", "4", "-", "0", "1", "-", "0", "5">>,
      <<"2", "0", "2", "4", "-", "0", "1", "-", "2", "5">>,
      <<"2", "0", "2", "3", "-", "1", "2", "-", "3", "1">>, <<"D", "1">>,
      <<"P", "1">>, <<"1", "2">>, <<"1", "2", "3">>, <<"2", "0", "2", "4">>,
      <<"L", "1">>, <<"B", "D">>, <<"G", "1">>>>

OtherLine ==
    <<<<"1", "2", ".", "9">>,
      <<"2", "0", "2", "4", "-", "0", "3", "-", "0", "1">>,
      <<"2", "0", "2", "3", "-", "0", "2", "-", "3", "0">>,
      <<"2", "0", "2", "4", "-", "0", "3">>, <<"D", "2">>, <<"P", "2">>,
      <<"0", "0", "7">>, <<"0", "4", "5">>, <<"2", "0", "2", "3">>, <<"L", "2">>,
      <<"U", "S">>, <<"G", "2">>>>

MalformedLine ==
    <<<<"a">>, <<"n", "/", "a">>,
      <<"2", "5", "-", "0", "1", "-", "2", "0", "2", "4">>, <<"-">>, <<>>,
      <<"P", "1">>, <<"1", "a">>, <<"a">>, <<".">>, <<>>, <<>>, <<>>>>

EmptyLine == [i \in 1..12 |-> <<>>]

\* a line that ends after its third cell: the other fields are undefined
ShortLine ==
    <<<<"1", "7">>, <<"2", "0", "2", "4", "-", "0", "1", "-", "0", "1">>,
      <<"a">>>>

FCRLinePool == {GoodLine, OtherLine, MalformedLine, EmptyLine, ShortLine}

FCRDatasets ==
    {Some([k \in 1..Len(ls) |-> Row(requiredColumns, ls[k])]) :
        ls \in SeqsUpTo(FCRLinePool, MaxFcrRows) \ {<<>>}}

InitFCRProcess ==
    /\ page \in FCRVariants
    /\ inputData \in FCRDatasets
    /\ poData = Null
    /\ recycledPOsData = Null
    /\ processedData = Null
    /\ isProcessing = FALSE
    /\ logs = <<>>
    /\ errors = <<>>
    /\ pending = <<>>
    /\ run = NoRun
    /\ arg = Undefined
    /\ out = NoOut
    /\ browser = NoBrowser
    /\ copiedBoxes = {}
    /\ copyHistory = <<>>
    /\ lastCopiedBoxId = Null
    /\ storage = EmptyStorage
    /\ saveTimer = FALSE
    /\ db = <<>>
    /\ response = NoResponse
    /\ detail = NoDetail
    /\ calls = <<>>

NextFCRProcess == fcrProcessData

SpecFCRProcess == InitFCRProcess /\ [][NextFCRProcess]_vars

(***************************************************************************)
(* Claims about processData of the FCR pages (SpecFCRProcess).             *)
(***************************************************************************)
\* a step of processData
ProcessStep == page \in FCRVariants /\ inputData # Null /\ logs' # logs

\* C14: no normalizer throws, so processData of an FCR page never aborts on a
\* malformed field: for every loaded dataset it produces a record for every
\* row and sets processedData, whatever the fields of the rows are
\* (malformed, empty or missing), and it logs no error.
C14_ProcessNeverAborts ==
    [][ProcessStep =>
          /\ processedData' # Null
          /\ Len(Val(processedData')) = Len(Val(inputData))
          /\ \A k \in Len(logs) + 1..Len(logs') : logs'[k].type # "error"
          /\ isProcessing' = FALSE]_vars

\* a file with a malformed line, a line of empty cells or a line cut short
\* was processed
C14_Witness ==
    /\ processedData # Null
    /\ inputData # Null
    /\ Len(Val(inputData)) = 2
    /\ Val(inputData)[1] = Row(requiredColumns, MalformedLine)
    /\ Val(inputData)[2] = Row(requiredColumns, ShortLine)
    /\ Len(Val(processedData)) = 2

\* C15: processData emits exactly one record per input row in the order of
\* the rows: record k is built from row k only, has index k and id 'box_'
\* followed by k - 1; the indices are 1..N and the ids are pairwise distinct.
C15_OneRecordPerRow ==
    processedData # Null =>
        LET rows == Val(inputData)
            recs == Val(processedData)
        IN /\ Len(recs) = Len(rows)
           /\ \A k \in 1..Len(recs) :
                 /\ recs[k].index = k
                 /\ recs[k].id = BoxPrefix \o NatToStr(k - 1)
                 /\ recs[k].description = orEmpty(Get(rows[k], DescriptionCol))
                 /\ recs[k].poNumbers = orEmpty(Get(rows[k], PONumbersCol))
                 /\ recs[k].goods = orEmpty(Get(rows[k], GoodsCol))
                 /\ recs[k].lcContact = orEmpty(Get(rows[k], LcContactCol))
                 /\ recs[k].countryCode = orEmpty(Get(rows[k], CountryShortCodeCol))
                 /\ recs[k].invoiceNo = formatNumber(Get(rows[k], InvoiceNoCol))
           /\ \A j, k \in 1..Len(recs) : recs[j].id = recs[k].id => j = k

\* two different lines were processed
C15_Witness ==
    /\ processedData # Null
    /\ Len(Val(processedData)) = 2
    /\ Val(inputData)[1] = Row(requiredColumns, OtherLine)
    /\ Val(inputData)[2] = Row(requiredColumns, GoodLine)
    /\ Val(processedData)[2].description = GoodLine[5]

\* C16 as written: formattedText of a row is exactly 11 lines: the first
\* line (the Description of the row, or the fixed literal in the variant that
\* has one), ORDER NO., DESCRIPTION OF GOODS., INVOICE NO. with the normalized
\* Invoice No, DATE with the normalized Invoice Date, EXP NO. with the AD
\* Code, the normalized EXP Serial and the EXP Year, DATE with the normalized
\* Entry Date, CONTRACT NO., DATE with the normalized Date of Contact, the
\* H. S. CODE line and COUNTRY; for EXP Serial '7', AD Code '123' and EXP Year
\* '2024' the EXP line is 'EXP NO. : 123/000007/2024' on every page.
C16_ElevenLineTemplate ==
    processedData # Null =>
        \A k \in 1..Len(Val(processedData)) :
            LET row == Val(inputData)[k]
                rec == Val(processedData)[k]
                lines == Split(rec.formattedText, NewLine)
            IN /\ Len(lines) = 11
               /\ lines[1] = IF page = FixedLiteralPage THEN FixedFirstLine
                             ELSE orEmpty(Get(row, DescriptionCol))
               /\ lines[2] = OrderNoLabel \o orEmpty(Get(row, PONumbersCol))
               /\ lines[3] = GoodsLabel \o orEmpty(Get(row, GoodsCol))
               /\ lines[4] = InvoiceNoLabel \o rec.invoiceNo
               /\ lines[5] = DateLabel \o rec.invoiceDate
               /\ lines[6] = ExpNoLabel \o orEmpty(Get(row, ADCodeCol)) \o Slash
                               \o rec.expSerial \o Slash \o orEmpty(Get(row, EXPYearCol))
               /\ lines[7] = DateLabel \o rec.entryDate
               /\ lines[8] = ContractNoLabel \o orEmpty(Get(row, LcContactCol))
               /\ lines[9] = DateLabel \o rec.contactDate
               /\ lines[10] = HsCodeLine
               /\ lines[11] = CountryLabel \o orEmpty(Get(row, CountryShortCodeCol))
               /\ row = Row(requiredColumns, GoodLine) =>
                     lines[6] = ExpNoLabel \o <<"1", "2", "3">> \o Slash
                                  \o <<"0", "0", "0", "0", "0", "7">> \o Slash
                                  \o <<"2", "0", "2", "4">>

(***************************************************************************)
(* Claims about the uploads, the loaded datasets and the log (Spec and     *)
(* SpecPages).                                                             *)
(***************************************************************************)
\* a loaded dataset is a non-empty sequence of rows under a non-empty header
NonEmptyDataset(d) ==
    d # Null => /\ Len(Val(d)) > 0
                /\ \A k \in 1..Len(Val(d)) : DOMAIN Val(d)[k] # {}

\* the callback of a file without data rows failed with an error and loaded
\* nothing
ZeroRowsFail ==
    \A i \in 1..Len(pending) :
        (CallbackRan(i) /\ Len(pending[i].file.lines) = 0) =>
            /\ poData' = poData
            /\ recycledPOsData' = recycledPOsData
            /\ inputData' = inputData
            /\ Len(logs') > Len(logs)
            /\ Last(logs').type = "error"

\* C17: an upload whose parse yields zero data rows always fails with an
\* error and never loads an empty dataset: poData, recycledPOsData and
\* inputData are each null or a non-empty sequence of rows with a non-empty
\* header.
C17_NoEmptyDataset ==
    /\ [](NonEmptyDataset(poData) /\ NonEmptyDataset(recycledPOsData)
            /\ NonEmptyDataset(inputData))
    /\ [][ZeroRowsFail]_vars

\* with PO data loaded, a PO file of a header line only was refused: the data
\* loaded before stay
C17_Witness ==
    /\ page = "POProcessor"
    /\ poData # Null
    /\ pending = <<>>
    /\ Len(errors) = 1
    /\ errors[1].inner = "No valid data found in ${fileName}. Please check the file format."

\* the error entries among the entries a step added to the log
NewErrors(before, after) ==
    {k \in Len(before) + 1..Len(after) : after[k].type = "error"}

\* C18: when an upload fails with a parse error or a header mismatch, the
\* failure is surfaced as exactly one error entry added to the log (and, on
\* the PO page, the same message added to errors), and nothing of the failed
\* file is committed: the loaded datasets and the processed results keep the
\* values they had.
C18_FailedUploadCommitsNothing ==
    [][\A i \in 1..Len(pending) :
         (CallbackRan(i)
            /\ \/ ReadFailed(logs')
               \/ ValidationFailed(page, pending[i].file, pending[i].fileType)) =>
            /\ IsPrefix(logs, logs')
            /\ Cardinality(NewErrors(logs, logs')) = 1
            /\ Last(logs').type = "error"
            /\ page = "POProcessor" => errors' = Append(errors, Last(logs').message)
            /\ page # "POProcessor" => errors' = errors
            /\ poData' = poData
            /\ recycledPOsData' = recycledPOsData
            /\ inputData' = inputData
            /\ processedData' = processedData]_vars

\* on an FCR page with a file loaded and processed, a file that lacks
\* required columns was refused: the rows and the records stay
C18_Witness ==
    /\ page \in FCRPages
    /\ inputData # Null
    /\ processedData # Null
    /\ pending = <<>>
    /\ Len(logs) = 2
    /\ logs[2].type = "error"
    /\ logs[2].message.inner = "Missing required columns: ${missingColumns.join(', ')}"

\* a step that clears the log: the Clear button of either page, the start of
\* an upload, or the start of a PO processing run
ClearingStep ==
    \/ clearLogs
    \/ fcrClearLog
    \/ processData
    \/ \E f \in PagesPOFiles, ft \in {"po", "recycled"} : handleFileUpload(f, ft)
    \/ \E f \in PagesFCRFiles : fcrHandleFileUpload(f)

WellFormedEntry(e) ==
    /\ DOMAIN e = {"message", "type", "timestamp"}
    /\ e.type \in {"info", "success", "warning", "error"}

\* C20: the log of a mounted page is ordered and append-only: a step that
\* logs leaves the earlier entries unchanged and in place and adds entries
\* {message, type, timestamp} after them; entries leave the log only through
\* a clear (Clear Log, or the clear at the start of an upload or of a PO
\* processing run), after which the log holds only what the step added.
C20_LogAppendOnly ==
    [][page' = page =>
         /\ \A k \in 1..Len(logs') : WellFormedEntry(logs'[k])
         /\ IsPrefix(logs, logs') \/ ClearingStep
         /\ (logs # <<>> /\ logs' = <<>>) => (clearLogs \/ fcrClearLog)]_vars

\* on an FCR page the log is empty after a file was processed: Clear Log
\* emptied it
C20_Witness ==
    /\ page \in FCRPages
    /\ processedData # Null
    /\ logs = <<>>

(***************************************************************************)
(* The copy marks of the FCR pages.  copiedBoxes is the set of the keys of *)
(* the object (each key maps to true); storage is the two localStorage     *)
(* items of FCRGenerator.                                                  *)
(***************************************************************************)
\* the ids of the records on display
boxIds == IF processedData = Null THEN {}
          ELSE {Val(processedData)[k].id : k \in 1..Len(Val(processedData))}

\* a filter that keeps every id, a mutant
withoutNone(history, boxId) == history

\* prev.filter(id => id !== boxId)
without(history, boxId) == SelectSeq(history, LAMBDA id : id # boxId)

\* the page keeps a copy history
keepsHistory(p) == p \in FCRPages

\* a click on a box or on its copy button: ok tells whether
\* navigator.clipboard.writeText resolved
copyToClipboard(boxId, ok) ==
    /\ page \in FCRVariants
    /\ boxId \in boxIds
    /\ Len(logs) + 1 <= MaxLogs
    /\ IF ok
       THEN /\ copiedBoxes' = copiedBoxes \cup {boxId}
            /\ copyHistory' = IF keepsHistory(page)
                               THEN Append(without(copyHistory, boxId), boxId)
                               ELSE copyHistory
            /\ lastCopiedBoxId' = Some(boxId)
            /\ saveTimer' = (page = "FCRGenerator")
            /\ logs' = addLog(logs, Msg("Box content copied to clipboard!", <<>>), "success")
       ELSE /\ UNCHANGED <<copiedBoxes, copyHistory, lastCopiedBoxId, saveTimer>>
            /\ logs' = addLog(logs, Msg("Failed to copy to clipboard", <<>>), "error")
    /\ UNCHANGED <<serverVars, page, poData, recycledPOsData, inputData, processedData, isProcessing,
                   errors, pending, run, arg, out, browser, storage>>

\* the state setters of undoCopy(boxId); the new copiedBoxes object starts
\* the auto-save timer of FCRGenerator anew
undone(boxId) ==
    /\ copiedBoxes' = copiedBoxes \ {boxId}
    /\ saveTimer' = (page = "FCRGenerator")
    /\ copyHistory' = IF keepsHistory(page) THEN without(copyHistory, boxId) ELSE copyHistory
    /\ lastCopiedBoxId' = IF lastCopiedBoxId = Some(boxId) THEN Null ELSE lastCopiedBoxId

\* the undo button of a box shown as copied
undoCopy(boxId) ==
    /\ page \in FCRVariants
    /\ boxId \in boxIds \cap copiedBoxes
    /\ Len(logs) + 1 <= MaxLogs
    /\ undone(boxId)
    /\ logs' = addLog(logs, Msg("Copied status removed!", <<>>), "success")
    /\ UNCHANGED <<serverVars, page, poData, recycledPOsData, inputData, processedData, isProcessing,
                   errors, pending, run, arg, out, browser, storage>>

\* the Undo Last Copy button
undoLastCopy ==
    /\ page \in FCRVariants
    /\ Len(logs) + 2 <= MaxLogs
    /\ IF lastCopiedBoxId # Null /\ Val(lastCopiedBoxId) \in copiedBoxes
       THEN /\ undone(Val(lastCopiedBoxId))
            /\ logs' = addLog(addLog(logs, Msg("Copied status removed!", <<>>), "success"),
                              Msg("Last copy action undone!", <<>>), "success")
       ELSE /\ UNCHANGED <<copiedBoxes, copyHistory, lastCopiedBoxId, saveTimer>>
            /\ logs' = addLog(logs, Msg("No recent copy action to undo!", <<>>), "error")
    /\ UNCHANGED <<serverVars, page, poData, recycledPOsData, inputData, processedData, isProcessing,
                   errors, pending, run, arg, out, browser, storage>>

\* the Reset All button; FCRGenerator removes the two items as well
resetAllCopied ==
    /\ page \in FCRVariants
    /\ Len(logs) + 1 <= MaxLogs
    /\ copiedBoxes' = {}
    /\ copyHistory' = IF keepsHistory(page) THEN <<>> ELSE copyHistory
    /\ lastCopiedBoxId' = Null
    /\ saveTimer' = (page = "FCRGenerator")
    /\ storage' = IF page = "FCRGenerator" THEN EmptyStorage ELSE storage
    /\ logs' = addLog(logs, Msg("All copied status has been reset!", <<>>), "success")
    /\ UNCHANGED <<serverVars, page, poData, recycledPOsData, inputData, processedData, isProcessing,
                   errors, pending, run, arg, out, browser>>

\* the timer of the auto-save effect of FCRGenerator fires, one second after
\* copiedBoxes or copyHistory changed last: the two items are written when
\* copiedBoxes has a key
autoSave ==
    /\ page = "FCRGenerator"
    /\ saveTimer
    /\ saveTimer' = FALSE
    /\ storage' = IF copiedBoxes # {}
                  THEN [copied |-> copiedBoxes, history |-> copyHistory]
                  ELSE storage
    /\ UNCHANGED <<serverVars, page, poData, recycledPOsData, inputData, processedData, isProcessing,
                   logs, errors, pending, run, arg, out, browser, copiedBoxes, copyHistory,
                   lastCopiedBoxId>>

\* the page is loaded again: the state starts from the useState defaults,
\* and FCRGenerator reads the two items
reload ==
    /\ page \in FCRVariants
    /\ inputData # Null
    /\ inputData' = Null
    /\ processedData' = Null
    /\ isProcessing' = FALSE
    /\ logs' = <<>>
    /\ pending' = <<>>
    /\ copiedBoxes' = IF page = "FCRGenerator" THEN storage.copied ELSE {}
    /\ copyHistory' = IF page = "FCRGenerator" THEN storage.history ELSE <<>>
    /\ lastCopiedBoxId' = Null
    /\ saveTimer' = (page = "FCRGenerator")
    /\ UNCHANGED <<serverVars, page, poData, recycledPOsData, errors, run, arg, out, browser, storage>>

(***************************************************************************)
(* SpecCopy: an FCR page; files are uploaded and processed, and boxes are  *)
(* copied.                                                                 *)
(***************************************************************************)
\* two files with the required columns; no date of theirs parses
CopyFiles ==
    {FileOf(FcrCsv, requiredColumns, FCRLine(requiredColumns), <<>>),
     FileOf(FcrCsv, requiredColumns, MalformedLine, <<>>)}

InitCopy ==
    /\ page \in FCRVariants
    /\ poData = Null
    /\ recycledPOsData = Null
    /\ inputData = Null
    /\ processedData = Null
    /\ isProcessing = FALSE
    /\ logs = <<>>
    /\ errors = <<>>
    /\ pending = <<>>
    /\ run = NoRun
    /\ arg = Undefined
    /\ out = NoOut
    /\ browser = NoBrowser
    /\ copiedBoxes = {}
    /\ copyHistory = <<>>
    /\ lastCopiedBoxId = Null
    /\ storage = EmptyStorage
    /\ saveTimer = (page = "FCRGenerator")
    /\ db = <<>>
    /\ response = NoResponse
    /\ detail = NoDetail
    /\ calls = <<>>

NextCopy ==
    \/ \E f \in CopyFiles : fcrHandleFileUpload(f)
    \/ \E i \in 1..Len(pending) : fcrParseComplete(i)
    \/ fcrProcessData
    \/ \E boxId \in boxIds, ok \in BOOLEAN : copyToClipboard(boxId, ok)
    \/ \E boxId \in boxIds : undoCopy(boxId)
    \/ undoLastCopy
    \/ resetAllCopied
    \/ autoSave
    \/ reload

SpecCopy == InitCopy /\ [][NextCopy]_vars

(***************************************************************************)
(* Claims about the copy marks (SpecCopy).                                 *)
(***************************************************************************)
\* processData replaced the records of an earlier run by those of another
\* file
NewRun ==
    /\ page \in FCRVariants
    /\ processedData # Null
    /\ processedData' # Null
    /\ processedData' # processedData

\* C19: no mutable state crosses runs: when a new file was uploaded and
\* processed, no record of the new run is shown or counted as copied because
\* of a copy made on a record of an earlier run.
C19_NoCopyMarkCrossesRuns ==
    [][NewRun => /\ boxIds' \cap copiedBoxes' = {}
                 /\ Cardinality(copiedBoxes') = 0]_vars

\* C24: in the local-storage FCR generator progress is saved automatically:
\* once the auto-save timer has fired after the last change of the copy
\* marks, the marks and the history in local storage equal the current
\* copiedBoxes and copyHistory, the state with the last mark undone included.
C24_AutoSaveKeepsUp ==
    (page = "FCRGenerator" /\ ~saveTimer) =>
        storage = [copied |-> copiedBoxes, history |-> copyHistory]

(***************************************************************************)
(* SpecMarks: an FCR page that shows the boxes of a processed file, its    *)
(* log cleared; boxes are copied and the marks are undone and reset.       *)
(***************************************************************************)
MaxMarkRows == 2
MaxMarkLogs == 4

MarkRows == [k \in 1..MaxMarkRows |-> Row(requiredColumns, FCRLine(requiredColumns))]

InitMarks ==
    /\ page \in FCRVariants
    /\ poData = Null
    /\ recycledPOsData = Null
    /\ inputData = Some(MarkRows)
    /\ processedData = Some(fcrProcessed(page, NoBrowser, MarkRows))
    /\ isProcessing = FALSE
    /\ logs = <<>>
    /\ errors = <<>>
    /\ pending = <<>>
    /\ run = NoRun
    /\ arg = Undefined
    /\ out = NoOut
    /\ browser = NoBrowser
    /\ copiedBoxes = {}
    /\ copyHistory = <<>>
    /\ lastCopiedBoxId = Null
    /\ storage = EmptyStorage
    /\ saveTimer = (page = "FCRGenerator")
    /\ db = <<>>
    /\ response = NoResponse
    /\ detail = NoDetail
    /\ calls = <<>>

\* the log is let grow to MaxMarkLogs entries
LogRoom == Len(logs') <= MaxMarkLogs

NextMarks ==
    \/ \E boxId \in boxIds, ok \in BOOLEAN : copyToClipboard(boxId, ok) /\ LogRoom
    \/ \E boxId \in boxIds : undoCopy(boxId) /\ LogRoom
    \/ undoLastCopy /\ LogRoom
    \/ resetAllCopied /\ LogRoom
    \/ autoSave

SpecMarks == InitMarks /\ [][NextMarks]_vars

(***************************************************************************)
(* Claims about the copy history (SpecMarks).                              *)
(***************************************************************************)
NoDuplicates(s) == \A i, j \in 1..Len(s) : s[i] = s[j] => i = j

\* the history lists the copied boxes, each once, and the box copied last is
\* null or copied
HistoryAgrees ==
    /\ NoDuplicates(copyHistory)
    /\ Range(copyHistory) = copiedBoxes
    /\ lastCopiedBoxId # Null => Val(lastCopiedBoxId) \in copiedBoxes

\* the step copied boxId
CopiedNow(boxId) ==
    /\ Len(logs') = Len(logs) + 1
    /\ Last(logs').message.tpl = "Box content copied to clipboard!"
    /\ lastCopiedBoxId' = Some(boxId)

\* a copy puts its box last in the history, and every step keeps the order
\* of the other boxes that stay copied
HistoryOrdered ==
    /\ \A boxId \in boxIds : CopiedNow(boxId) =>
            /\ Len(copyHistory') > 0
            /\ Last(copyHistory') = boxId
            /\ SelectSeq(copyHistory', LAMBDA id : id # boxId)
                 = SelectSeq(copyHistory, LAMBDA id : id # boxId)
    /\ (\A boxId \in boxIds : ~CopiedNow(boxId)) =>
            copyHistory' = SelectSeq(copyHistory, LAMBDA id : id \in copiedBoxes')

\* C28: in the FCR generator variants that keep a copy history, starting
\* from no copied box and an empty history, after any sequence of
\* copyToClipboard, undoCopy, undoLastCopy and resetAllCopied the history
\* holds no box id twice, its ids are the keys of copiedBoxes, the box copied
\* most recently among those still copied is last in it, and lastCopiedBoxId
\* is null or a box that is marked copied.
C28_HistoryAgreesWithMarks ==
    /\ [](keepsHistory(page) => HistoryAgrees)
    /\ [][keepsHistory(page) => HistoryOrdered]_vars

\* box_0 and box_1 were copied and box_0 was copied again: it is last now
C28_Witness ==
    /\ keepsHistory(page)
    /\ Len(logs) = 3
    /\ copyHistory = <<BoxId(1), BoxId(0)>>
    /\ lastCopiedBoxId = Some(BoxId(0))

(***************************************************************************)
(* Claims about the counts an FCR page displays (SpecCopy).                *)
(***************************************************************************)
\* Object.keys(copiedBoxes).length and processedData?.length || 0
copiedCount == Cardinality(copiedBoxes)
totalCount == IF processedData = Null THEN 0 ELSE Len(Val(processedData))

\* C29: in every reachable state of an FCR generator page the displayed
\* copied count does not exceed the number of processed records:
\* 0 <= copiedCount <= totalCount, so that the progress is between 0 and 100
\* percent.
C29_CopiedCountWithinTotal ==
    page \in FCRVariants =>
        /\ 0 <= copiedCount
        /\ copiedCount <= totalCount
        /\ totalCount > 0 => 100 * copiedCount <= 100 * totalCount

(***************************************************************************)
(* exportToDOC of the FCR page with a search box and a copy-status filter. *)
(* What it writes into the document is kept as a record: the three counts, *)
(* the percentage and the blocks of the boxes grid.                        *)
(***************************************************************************)
\* String.prototype.toLowerCase on the letters A-Z
toLowerCase(s) ==
    [i \in 1..Len(s) |->
        IF \E n \in 1..26 : CapitalLetters[n] = s[i]
        THEN Letters[CHOOSE n \in 1..26 : CapitalLetters[n] = s[i]]
        ELSE s[i]]

\* String.prototype.includes
includes(s, sub) ==
    \E i \in 0..(Len(s) - Len(sub)) : SubSeq(s, i + 1, i + Len(sub)) = sub

\* getFilteredData(): the records the search term and the filter let through
getFilteredData(processed, copied, searchTerm, currentFilter) ==
    IF processed = Null THEN <<>>
    ELSE LET searched ==
               IF Len(searchTerm) > 0
               THEN SelectSeq(Val(processed), LAMBDA item :
                        \/ includes(toLowerCase(item.invoiceNo), toLowerCase(searchTerm))
                        \/ includes(toLowerCase(item.description), toLowerCase(searchTerm)))
               ELSE Val(processed)
         IN IF currentFilter = "copied"
            THEN SelectSeq(searched, LAMBDA item : item.id \in copied)
            ELSE IF currentFilter = "not-copied"
            THEN SelectSeq(searched, LAMBDA item : item.id \notin copied)
            ELSE searched

\* ((copiedCount / length) * 100).toFixed(1), in tenths of a percent; 0 / 0
\* is NaN
percentage(count, length) ==
    IF length = 0 THEN [nan |-> TRUE, tenths |-> 0]
    ELSE [nan |-> FALSE, tenths |-> (2000 * count + length) \div (2 * length)]

\* the document exportToDOC writes
exportDocument(processed, copied, searchTerm, currentFilter) ==
    LET filteredData == getFilteredData(processed, copied, searchTerm, currentFilter)
        count == Len(SelectSeq(filteredData, LAMBDA item : item.id \in copied))
    IN [total |-> Len(filteredData),
        completed |-> count,
        remaining |-> Len(filteredData) - count,
        progress |-> percentage(count, Len(filteredData)),
        blocks |-> [k \in 1..Len(filteredData) |->
                       [index |-> filteredData[k].index,
                        completed |-> filteredData[k].id \in copied,
                        invoiceNo |-> filteredData[k].invoiceNo,
                        formattedText |-> filteredData[k].formattedText]]]

\* the Export button; arg holds the search term and the filter of the page
exportToDOC ==
    /\ page = FixedLiteralPage
    /\ processedData # Null
    /\ ~out.called
    /\ out' = [NoOut EXCEPT !.called = TRUE, !.fn = "exportToDOC",
                            !.value = exportDocument(processedData, copiedBoxes,
                                                     arg.searchTerm, arg.currentFilter)]
    /\ logs' = addLog(logs, Msg("FCR data exported to DOC file successfully!", <<>>),
                      "success")
    /\ UNCHANGED <<serverVars, page, poData, recycledPOsData, inputData, processedData,
                   isProcessing, errors, pending, run, arg, browser, copyVars>>

(***************************************************************************)
(* SpecExport: the page shows the boxes of a processed file, some of them  *)
(* marked copied, under a search term and a filter; Export is clicked.     *)
(***************************************************************************)
MaxExportRows == 2

ExportDatasets ==
    {[k \in 1..Len(ls) |-> Row(requiredColumns, ls[k])] :
        ls \in SeqsUpTo({FCRLine(requiredColumns), MalformedLine}, MaxExportRows) \ {<<>>}}

SearchTerms == {<<>>, <<"V">>, <<"1">>, <<"z", "z">>}
Filters == {"all", "copied", "not-copied"}

InitExport ==
    /\ page = FixedLiteralPage
    /\ poData = Null
    /\ recycledPOsData = Null
    /\ \E rows \in ExportDatasets :
          /\ inputData = Some(rows)
          /\ processedData = Some(fcrProcessed(page, NoBrowser, rows))
    /\ isProcessing = FALSE
    /\ logs = <<>>
    /\ errors = <<>>
    /\ pending = <<>>
    /\ run = NoRun
    /\ arg \in [searchTerm : SearchTerms, currentFilter : Filters]
    /\ out = NoOut
    /\ browser = NoBrowser
    /\ copiedBoxes \in SUBSET {BoxId(k) : k \in 0..(MaxExportRows - 1)}
    /\ copyHistory = <<>>
    /\ lastCopiedBoxId = Null
    /\ storage = EmptyStorage
    /\ saveTimer = FALSE
    /\ db = <<>>
    /\ response = NoResponse
    /\ detail = NoDetail
    /\ calls = <<>>

NextExport == exportToDOC

SpecExport == InitExport /\ [][NextExport]_vars

(***************************************************************************)
(* Claims about the export (SpecExport).                                   *)
(***************************************************************************)
\* C22: every export made while processed results exist embeds one block
\* per record of the processed collection, in the order of the records, and
\* its counts satisfy total = number of processed records, completed +
\* remaining = total, and percentage = completed / total, a number between 0
\* and 100, whatever search term and copy-status filter are active.
C22_ExportCoversAllRecords ==
    (out.called /\ out.fn = "exportToDOC") =>
        LET doc == out.value
            records == Val(processedData)
        IN /\ Len(doc.blocks) = Len(records)
           /\ \A k \in 1..Len(records) :
                  /\ k <= Len(doc.blocks)
                  /\ doc.blocks[k].index = records[k].index
                  /\ doc.blocks[k].formattedText = records[k].formattedText
           /\ doc.total = Len(records)
           /\ doc.completed + doc.remaining = doc.total
           /\ ~doc.progress.nan
           /\ doc.progress.tenths \in 0..1000
           /\ doc.progress.tenths = (2000 * doc.completed + doc.total) \div (2 * doc.total)

(***************************************************************************)
(* The server: the projects collection and its routes.  db is the          *)
(* collection, a document's _id being its position; a document removed by  *)
(* findByIdAndDelete leaves its position marked deleted.  response is the  *)
(* answer to the latest request.  A copiedBoxes object is a function from  *)
(* its keys to their values.                                               *)
(***************************************************************************)
MaxProjects == 2
MaxProjectRows == 1

ObjectId == "ObjectId"

\* Math.round of 100 * count / total
roundPercent(count, total) == (200 * count + total) \div (2 * total)

\* Object.keys(obj).length
keyCount(obj) == Cardinality(DOMAIN obj)

\* the subdocuments of processedData, each given an _id by the schema
castProcessedData(records) ==
    [k \in 1..Len(records) |->
        [f \in DOMAIN records[k] \cup {"_id"} |->
            IF f = "_id" THEN ObjectId ELSE records[k][f]]]

\* fcrProjectSchema.pre('save'): the statistics of the document
preSave(doc) ==
    LET total == Len(doc.processedData)
        count == keyCount(doc.copiedBoxes)
    IN [doc EXCEPT !.totalBoxes = total,
                   !.copiedCount = count,
                   !.completionPercentage =
                       IF total > 0 THEN roundPercent(count, total) ELSE 0]

\* new FCRProject({...}) with the defaults of the schema; the schema's year
\* is given no value
\* what findByIdAndDelete leaves at the position of a document
Removed ==
    [name |-> <<>>, year |-> Undefined, processedData |-> <<>>, copiedBoxes |-> <<>>,
     totalBoxes |-> 0, copiedCount |-> 0, completionPercentage |-> 0,
     isArchived |-> FALSE, deleted |-> TRUE]

newFCRProject(name, records, copied) ==
    [name |-> trim(name), year |-> Undefined,
     processedData |-> castProcessedData(records),
     copiedBoxes |-> copied,
     totalBoxes |-> 0, copiedCount |-> 0, completionPercentage |-> 0,
     isArchived |-> FALSE, deleted |-> FALSE]

\* findById
found(id) == id \in 1..Len(db) /\ ~db[id].deleted

\* findOne({name, isArchived: false}), _id other than except
nameTaken(name, except) ==
    \E i \in 1..Len(db) :
        /\ i # except
        /\ ~db[i].deleted
        /\ ~db[i].isArchived
        /\ db[i].name = name

Answer(op, id, request, status, body) ==
    [op |-> op, id |-> id, request |-> request, status |-> status, body |-> body]

ErrorBody(message) == [error |-> message]

serverRest ==
    <<page, poData, recycledPOsData, inputData, processedData, isProcessing, logs,
      errors, pending, run, arg, out, browser, copyVars>>

\* no handler of the project detail page takes a step
pageIdle == UNCHANGED <<detail, calls>>

\* POST /api/projects
postProject(body) ==
    /\ IF ~truthy(body.name) \/ trim(Val(body.name)) = <<>>
       THEN /\ response' = Answer("POST", 0, body, 400,
                                   ErrorBody("Project name is required"))
            /\ UNCHANGED db
       ELSE IF ~truthy(body.processedData)
       THEN /\ response' = Answer("POST", 0, body, 400,
                                   ErrorBody("Processed data is required"))
            /\ UNCHANGED db
       ELSE IF nameTaken(trim(Val(body.name)), 0)
       THEN /\ response' = Answer("POST", 0, body, 409,
                                   ErrorBody("Project with this name already exists"))
            /\ UNCHANGED db
       ELSE /\ Len(db) < MaxProjects
            /\ LET saved == preSave(newFCRProject(
                                Val(body.name), Val(body.processedData),
                                IF IsSome(body.copiedBoxes)
                                THEN Val(body.copiedBoxes) ELSE <<>>))
               IN /\ db' = Append(db, saved)
                  /\ response' = Answer("POST", Len(db) + 1, body, 201, saved)
    /\ UNCHANGED serverRest

\* GET /api/projects/:id
getProject(id) ==
    /\ response' = IF found(id)
                   THEN Answer("GET", id, <<>>, 200, db[id])
                   ELSE Answer("GET", id, <<>>, 404, ErrorBody("Project not found"))
    /\ UNCHANGED db
    /\ UNCHANGED serverRest

\* PUT /api/projects/:id, through findByIdAndUpdate
putProject(id, body) ==
    LET named == truthy(body.name) /\ trim(Val(body.name)) # <<>>
    IN /\ IF named /\ nameTaken(trim(Val(body.name)), id)
          THEN /\ response' = Answer("PUT", id, body, 409,
                                      ErrorBody("Project with this name already exists"))
               /\ UNCHANGED db
          ELSE IF ~found(id)
          THEN /\ response' = Answer("PUT", id, body, 404, ErrorBody("Project not found"))
               /\ UNCHANGED db
          ELSE LET updated ==
                     [db[id] EXCEPT
                        !.name = IF named THEN trim(Val(body.name)) ELSE @,
                        !.processedData = IF truthy(body.processedData)
                                          THEN castProcessedData(Val(body.processedData))
                                          ELSE @,
                        !.copiedBoxes = IF IsSome(body.copiedBoxes)
                                        THEN Val(body.copiedBoxes) ELSE @]
               IN /\ db' = [db EXCEPT ![id] = updated]
                  /\ response' = Answer("PUT", id, body, 200, updated)
       /\ UNCHANGED serverRest

\* PUT /api/projects/:projectId/copy-status: with isCopied false the
\* assignment to the const updateQuery throws, with isCopied true the name
\* Project is not defined; the catch answers 500
putCopyStatus(id, boxId, isCopied) ==
    /\ response' = Answer("PUT copy-status", id, [boxId |-> boxId, isCopied |-> isCopied],
                          500,
                          ErrorBody(IF isCopied THEN "Project is not defined"
                                    ELSE "Assignment to constant variable."))
    /\ UNCHANGED db
    /\ UNCHANGED serverRest

\* DELETE /api/projects/:id, with ?permanent=true or without
deleteProject(id, permanent) ==
    /\ IF ~found(id)
       THEN /\ response' = Answer("DELETE", id, [permanent |-> permanent], 404,
                                   ErrorBody("Project not found"))
            /\ UNCHANGED db
       ELSE IF permanent
       THEN /\ db' = [db EXCEPT ![id] = Removed]
            /\ response' = Answer("DELETE", id, [permanent |-> permanent], 200,
                                   [message |-> "Project permanently deleted"])
       ELSE /\ db' = [db EXCEPT ![id].isArchived = TRUE]
            /\ response' = Answer("DELETE", id, [permanent |-> permanent], 200,
                                   [db[id] EXCEPT !.isArchived = TRUE])
    /\ UNCHANGED serverRest

\* POST /api/projects/:id/restore
restoreProject(id) ==
    /\ IF ~found(id)
       THEN /\ response' = Answer("restore", id, <<>>, 404, ErrorBody("Project not found"))
            /\ UNCHANGED db
       ELSE /\ db' = [db EXCEPT ![id].isArchived = FALSE]
            /\ response' = Answer("restore", id, <<>>, 200,
                                   [db[id] EXCEPT !.isArchived = FALSE])
    /\ UNCHANGED serverRest

(***************************************************************************)
(* SpecServer: requests of every route, with bodies from small sets.       *)
(***************************************************************************)
ProjectNames == {<<"A">>, <<" ", "A">>, <<"B">>}
ProjectYears == {2024}
ProjectRecords ==
    {fcrProcessed(FixedLiteralPage, NoBrowser,
                  [k \in 1..n |-> Row(requiredColumns, FCRLine(requiredColumns))]) :
        n \in 0..MaxProjectRows}
CopiedObjects ==
    {[k \in {} |-> TRUE],
     [k \in {BoxId(0)} |-> TRUE]}
ProjectIds == 1..MaxProjects

PostBodies ==
    [name : {Undefined} \cup {Some(n) : n \in ProjectNames},
     year : {Some(y) : y \in ProjectYears},
     processedData : {Some(d) : d \in ProjectRecords},
     copiedBoxes : {Undefined} \cup {Some(c) : c \in CopiedObjects}]

PutBodies ==
    [name : {Undefined} \cup {Some(n) : n \in ProjectNames},
     processedData : {Undefined} \cup {Some(d) : d \in ProjectRecords \ {<<>>}},
     copiedBoxes : {Undefined} \cup {Some(c) : c \in CopiedObjects}]

InitServer ==
    /\ page = FixedLiteralPage
    /\ poData = Null
    /\ recycledPOsData = Null
    /\ inputData = Null
    /\ processedData = Null
    /\ isProcessing = FALSE
    /\ logs = <<>>
    /\ errors = <<>>
    /\ pending = <<>>
    /\ run = NoRun
    /\ arg = <<>>
    /\ out = NoOut
    /\ browser = NoBrowser
    /\ copiedBoxes = {}
    /\ copyHistory = <<>>
    /\ lastCopiedBoxId = Null
    /\ storage = EmptyStorage
    /\ saveTimer = FALSE
    /\ db = <<>>
    /\ response = NoResponse
    /\ detail = NoDetail
    /\ calls = <<>>

NextServer ==
    \/ \E body \in PostBodies : postProject(body) /\ pageIdle
    \/ \E id \in ProjectIds : getProject(id) /\ pageIdle
    \/ \E id \in ProjectIds : \E body \in PutBodies : putProject(id, body) /\ pageIdle
    \/ \E id \in ProjectIds : \E boxId \in {BoxId(0)} :
          \E isCopied \in BOOLEAN : putCopyStatus(id, boxId, isCopied) /\ pageIdle
    \/ \E id \in ProjectIds : \E permanent \in BOOLEAN :
          deleteProject(id, permanent) /\ pageIdle
    \/ \E id \in ProjectIds : restoreProject(id) /\ pageIdle

SpecServer == InitServer /\ [][NextServer]_vars

(***************************************************************************)
(* Claims about the server (SpecServer).                                   *)
(***************************************************************************)
\* the records sent are the records got: as many, in the same order, every
\* field of a record sent being in the record got with the same value
SameRecords(sent, got) ==
    /\ Len(got) = Len(sent)
    /\ \A k \in 1..Len(sent) :
          \A f \in DOMAIN sent[k] : f \in DOMAIN got[k] /\ got[k][f] = sent[k][f]

\* C21: a project created through POST /api/projects with a name, a year,
\* processed records and a copied mapping is returned by GET
\* /api/projects/:id with the same name and year, the same records in the
\* same order with every field preserved, and the same copied mapping.
C21_CreateThenGetRoundTrip ==
    [][(/\ response.op = "POST"
        /\ response.status = 201
        /\ IsSome(response.request.copiedBoxes)
        /\ response'.op = "GET"
        /\ response'.id = response.id
        /\ response'.status = 200)
       => /\ response'.body.name = Val(response.request.name)
          /\ response'.body.year = response.request.year
          /\ SameRecords(Val(response.request.processedData),
                         response'.body.processedData)
          /\ response'.body.copiedBoxes = Val(response.request.copiedBoxes)]_vars

\* copiedBoxes after boxId was set to true or removed
withCopyStatus(copied, boxId, isCopied) ==
    IF isCopied
    THEN [k \in DOMAIN copied \cup {boxId} |-> IF k = boxId THEN TRUE ELSE copied[k]]
    ELSE [k \in DOMAIN copied \ {boxId} |-> copied[k]]

\* C25: PUT /api/projects/:projectId/copy-status with isCopied true sets
\* copiedBoxes[boxId] to true, with isCopied false removes the entry, leaves
\* the other entries alone, and answers success with the updated
\* copiedBoxes; for a project that does not exist it answers 404.
C25_CopyStatusEndpoint ==
    [][response'.op = "PUT copy-status" =>
        LET id == response'.id
            req == response'.request
        IN IF found(id)
           THEN /\ response'.status = 200
                /\ db'[id].copiedBoxes =
                       withCopyStatus(db[id].copiedBoxes, req.boxId, req.isCopied)
                /\ response'.body = [success |-> TRUE,
                                     copiedBoxes |-> db'[id].copiedBoxes]
           ELSE /\ response'.status = 404
                /\ db' = db]_vars

\* C26: after any sequence of create, update, archive, restore and
\* permanent delete, no two projects that are not archived have the same
\* name.
C26_UniqueActiveNames ==
    \A i, j \in 1..Len(db) :
        (/\ i # j
         /\ ~db[i].deleted /\ ~db[j].deleted
         /\ ~db[i].isArchived /\ ~db[j].isArchived)
        => db[i].name # db[j].name

\* C27: after any sequence of create, update and copy-status requests the
\* statistics of every stored project agree with its data: totalBoxes is
\* the number of processed records, copiedCount the number of keys of
\* copiedBoxes, completionPercentage the rounded share (0 without records).
C27_StatisticsAgree ==
    \A i \in 1..Len(db) :
        ~db[i].deleted =>
            /\ db[i].totalBoxes = Len(db[i].processedData)
            /\ db[i].copiedCount = keyCount(db[i].copiedBoxes)
            /\ db[i].completionPercentage =
                  IF db[i].totalBoxes > 0
                  THEN roundPercent(db[i].copiedCount, db[i].totalBoxes)
                  ELSE 0

(***************************************************************************)
(* The project detail page.  detail is the state of the component; calls   *)
(* holds the invocations of copyToClipboard and removeCopyStatus, each     *)
(* with the copiedBoxes of the render it was clicked in, the calls in      *)
(* flight at that moment, and where it stands: at an await ("writeText",   *)
(* "copy-status", "fallback") or settled ("done", "failed").               *)
(***************************************************************************)
MaxCalls == 2

\* the project of the URL
projectId == 1

MaxDetailRows == 2

DetailBoxes == {BoxId(k) : k \in 0..(MaxDetailRows - 1)}

\* copiedBoxes[boxId] is truthy
marked(copied, boxId) == boxId \in DOMAIN copied /\ copied[boxId]

\* { ...obj, [key]: value }
setKey(obj, key, value) ==
    [k \in DOMAIN obj \cup {key} |-> IF k = key THEN value ELSE obj[k]]

\* delete obj[key]
deleteKey(obj, key) == [k \in DOMAIN obj \ {key} |-> obj[k]]

Settled == {"done", "failed"}
inFlight == {i \in 1..Len(calls) : calls[i].pc \notin Settled}

\* loadProject, once the component is mounted
loadProject ==
    /\ detail.project = Null
    /\ getProject(projectId)
    /\ detail' = IF response'.status = 200
                 THEN [project |-> Some(response'.body),
                       copiedBoxes |-> response'.body.copiedBoxes]
                 ELSE detail
    /\ UNCHANGED calls

\* a click on the Copy button of a box: copyToClipboard up to its first await
detailCopyToClipboard(boxId) ==
    /\ detail.project # Null
    /\ Len(calls) < MaxCalls
    /\ calls' = Append(calls, [fn |-> "copyToClipboard", boxId |-> boxId,
                               closure |-> detail.copiedBoxes, during |-> inFlight,
                               pc |-> "writeText"])
    /\ UNCHANGED <<detail, db, response>>
    /\ UNCHANGED serverRest

\* navigator.clipboard.writeText settles: resolved, the box is marked and the
\* copy-status request is sent; rejected, the catch sets the box to false
writeTextSettles(i, ok) ==
    /\ i \in 1..Len(calls)
    /\ calls[i].pc = "writeText"
    /\ detail' = [detail EXCEPT !.copiedBoxes = setKey(@, calls[i].boxId, ok)]
    /\ calls' = [calls EXCEPT ![i].pc = IF ok THEN "copy-status" ELSE "failed"]
    /\ UNCHANGED <<db, response>>
    /\ UNCHANGED serverRest

\* a click on the Remove button, shown on a box that is marked:
\* removeCopyStatus up to its await
removeCopyStatus(boxId) ==
    /\ detail.project # Null
    /\ marked(detail.copiedBoxes, boxId)
    /\ Len(calls) < MaxCalls
    /\ detail' = [detail EXCEPT !.copiedBoxes = deleteKey(@, boxId)]
    /\ calls' = Append(calls, [fn |-> "removeCopyStatus", boxId |-> boxId,
                               closure |-> detail.copiedBoxes, during |-> inFlight,
                               pc |-> "copy-status"])
    /\ UNCHANGED <<db, response>>
    /\ UNCHANGED serverRest

\* what a call does once updateCopyStatus has returned
settle(i, success) ==
    /\ calls' = [calls EXCEPT ![i].pc = IF success THEN "done" ELSE "failed"]
    /\ detail' = IF success THEN detail
                 ELSE [detail EXCEPT !.copiedBoxes =
                          setKey(@, calls[i].boxId, calls[i].fn = "removeCopyStatus")]

\* updateCopyStatus: the answer of the copy-status endpoint arrives, or the
\* fetch rejects; an answer that is not ok sends the whole-project PUT
copyStatusAnswers(i, reached) ==
    /\ i \in 1..Len(calls)
    /\ calls[i].pc = "copy-status"
    /\ IF reached
       THEN /\ putCopyStatus(projectId, calls[i].boxId, calls[i].fn = "copyToClipboard")
            /\ IF response'.status \in 200..299
               THEN settle(i, TRUE)
               ELSE /\ calls' = [calls EXCEPT ![i].pc = "fallback"]
                    /\ UNCHANGED detail
       ELSE /\ settle(i, FALSE)
            /\ UNCHANGED <<db, response>>
            /\ UNCHANGED serverRest

\* newCopiedBoxes of the fallback: the copiedBoxes of the render the call was
\* clicked in, with the box of the call set or deleted
newCopiedBoxes(call) ==
    IF call.fn = "copyToClipboard"
    THEN setKey(call.closure, call.boxId, TRUE)
    ELSE deleteKey(call.closure, call.boxId)

\* updateCopyStatus: the answer of the whole-project PUT arrives, or the fetch
\* rejects
fallbackAnswers(i, reached) ==
    /\ i \in 1..Len(calls)
    /\ calls[i].pc = "fallback"
    /\ IF reached
       THEN /\ putProject(projectId, [name |-> Undefined, processedData |-> Undefined,
                                      copiedBoxes |-> Some(newCopiedBoxes(calls[i]))])
            /\ settle(i, response'.status \in 200..299)
       ELSE /\ settle(i, FALSE)
            /\ UNCHANGED <<db, response>>
            /\ UNCHANGED serverRest

(***************************************************************************)
(* SpecDetail: the detail page of a stored project of two boxes.           *)
(***************************************************************************)
StoredProjects ==
    {preSave(newFCRProject(<<"A">>,
                           fcrProcessed(FixedLiteralPage, NoBrowser,
                                        [k \in 1..MaxDetailRows |->
                                            Row(requiredColumns, FCRLine(requiredColumns))]),
                           c)) : c \in CopiedObjects}

InitDetail ==
    /\ page = "ProjectDetailPage"
    /\ poData = Null
    /\ recycledPOsData = Null
    /\ inputData = Null
    /\ processedData = Null
    /\ isProcessing = FALSE
    /\ logs = <<>>
    /\ errors = <<>>
    /\ pending = <<>>
    /\ run = NoRun
    /\ arg = <<>>
    /\ out = NoOut
    /\ browser = NoBrowser
    /\ copiedBoxes = {}
    /\ copyHistory = <<>>
    /\ lastCopiedBoxId = Null
    /\ storage = EmptyStorage
    /\ saveTimer = FALSE
    /\ \E project \in StoredProjects : db = <<project>>
    /\ response = NoResponse
    /\ detail = NoDetail
    /\ calls = <<>>

NextDetail ==
    \/ loadProject
    \/ \E boxId \in DetailBoxes : detailCopyToClipboard(boxId)
    \/ \E i \in 1..MaxCalls : \E ok \in BOOLEAN : writeTextSettles(i, ok)
    \/ \E boxId \in DetailBoxes : removeCopyStatus(boxId)
    \/ \E i \in 1..MaxCalls : \E reached \in BOOLEAN : copyStatusAnswers(i, reached)
    \/ \E i \in 1..MaxCalls : \E reached \in BOOLEAN : fallbackAnswers(i, reached)

SpecDetail == InitDetail /\ [][NextDetail]_vars

(***************************************************************************)
(* Claims about the project detail page (SpecDetail).                      *)
(***************************************************************************)
\* C23: when the server update fails, or the clipboard write fails, the
\* local copied state of that box goes back to the value it had before the
\* attempt: a box that was copied stays copied after a failed re-copy, a
\* box that was not copied stays not copied, and no other box changes.
C23_FailureRestoresLocalState ==
    [][\A i \in 1..Len(calls) :
          (calls[i].pc \notin Settled /\ calls'[i].pc = "failed")
          => /\ marked(detail'.copiedBoxes, calls[i].boxId)
                   = marked(calls[i].closure, calls[i].boxId)
             /\ \A b \in DetailBoxes \ {calls[i].boxId} :
                   marked(detail'.copiedBoxes, b) = marked(detail.copiedBoxes, b)]_vars

\* C30: when two copy-status changes for different boxes are in flight at
\* once and both server requests succeed, the stored copiedBoxes reflects
\* both changes and equals the local state.
C30_ConcurrentChangesBothStored ==
    (/\ Len(calls) = 2
     /\ calls[1].boxId # calls[2].boxId
     /\ 1 \in calls[2].during
     /\ calls[1].pc = "done"
     /\ calls[2].pc = "done")
    => /\ \A k \in 1..2 :
             marked(db[projectId].copiedBoxes, calls[k].boxId)
                 = (calls[k].fn = "copyToClipboard")
       /\ \A b \in DetailBoxes :
             marked(db[projectId].copiedBoxes, b) = marked(detail.copiedBoxes, b)

====
